---------------------------- MODULE Spec2Model ----------------------------
(***************************************************************************)
(* Legal Analytics & Citation Engine                                       *)
(*                                                                         *)
(* The calculators (legalCalculations) and the Bluebook citation           *)
(* formatter/parser (citationFormatter), modelled as operators over        *)
(* explicit values, and a caller that invokes one function on one          *)
(* argument: pc = "ready" holds the call about to be made, pc = "done"     *)
(* the value it returned (or the exception it raised).                     *)
(*                                                                         *)
(* JavaScript values are tagged records, so that a number, a string and    *)
(* undefined never compare equal:                                          *)
(*   Undefined, Null, Num(n), Str(s).                                      *)
(* Strings are sequences of one-character strings.  Non-integer numbers    *)
(* are scaled integers; every scale is stated where it is used.  The       *)
(* arithmetic is exact (rational), not IEEE-754 double precision.          *)
(***************************************************************************)
EXTENDS Integers, Sequences, FiniteSets, TLC

VARIABLES
    pc,      \* "ready": the call is about to run; "done": it has returned
    fn,      \* name of the exported function called
    arg,     \* its argument(s)
    ret,     \* Pending, or the outcome: Return(v) or Throw(e)
    now,     \* the system clock (hours since 1970-01-01T00:00Z)
    reads,   \* the clock at the call's first and last new Date()
    prior,   \* the earlier call whose result is this call's argument
    heap,    \* concurrent callers: the argument objects they share
    frames,  \* concurrent callers: each invocation's position and locals
    ui,      \* a mounted React component: its useState values
    net      \* the fetch requests that component has in flight

vars == <<pc, fn, arg, ret, now, reads, prior, heap, frames, ui, net>>

(* The single caller, and what it leaves alone: no concurrent callers and  *)
(* no mounted component.                                                   *)
caller == <<pc, fn, arg, ret, now, reads, prior>>
elsewhere == <<heap, frames, ui, net>>
NothingElsewhere ==
    /\ heap = << >>
    /\ frames = << >>
    /\ ui = << >>
    /\ net = << >>

----------------------------------------------------------------------------
(* JavaScript values *)

Undefined == [undefined |-> TRUE]
Null == [null |-> TRUE]
Num(n) == [num |-> n]
Str(s) == [str |-> s]

IsNum(v) == "num" \in DOMAIN v
IsStr(v) == "str" \in DOMAIN v

Pending == [pending |-> TRUE]
Return(v) == [value |-> v]
Throw(e) == [threw |-> e]

NoPrior == [none |-> TRUE]

Returned == pc = "done" /\ "value" \in DOMAIN ret

Max(a, b) == IF a >= b THEN a ELSE b
Min(a, b) == IF a <= b THEN a ELSE b

\* Math.round of the rational n/d (d > 0), negative or not: halves round up
\* (\div rounds toward minus infinity).
RoundDiv(n, d) == (2 * n + d) \div (2 * d)

----------------------------------------------------------------------------
(* calculateCaseStrength                                                   *)
(* Factor values are in tenths of a point (70 is 7.0), weights in          *)
(* hundredths (25 is 0.25), the returned score in hundredths of a point    *)
(* (700 is 7.00).                                                          *)

\* Object.entries(weights): the six factors in declaration order.
weightKeys == << "precedent_support", "factual_strength", "legal_authority",
                 "jurisdictional_factors", "opposing_arguments",
                 "evidence_quality" >>

weights == [ precedent_support |-> 25, factual_strength |-> 20,
             legal_authority |-> 20, jurisdictional_factors |-> 15,
             opposing_arguments |-> 10, evidence_quality |-> 10 ]

\* factors[factor]: undefined for a key the object does not carry.
Lookup(obj, key) == IF key \in DOMAIN obj THEN obj[key] ELSE Undefined

\* typeof factorScore === 'number' && factorScore >= 0 && factorScore <= 10
ValidFactorNoUpper(v) == IsNum(v) /\ v.num >= 0
ValidFactor(v) == IsNum(v) /\ v.num >= 0 /\ v.num <= 100

\* factor === 'opposing_arguments' ? (10 - factorScore) : factorScore
adjustedScoreAlways(factor, factorScore) == 100 - factorScore
adjustedScore(factor, factorScore) ==
    IF factor = "opposing_arguments" THEN 100 - factorScore ELSE factorScore

\* The forEach loop: the state <<weightedScore, totalWeight, breakdown>>
\* after the first i factors.  weightedScore is in thousandths.
\* let weightedScore = 0; let totalWeight = 0; const breakdown = {}
StrengthStart == [weightedScore |-> 0, totalWeight |-> 0, breakdown |-> << >>]

\* one call of the forEach callback, on the i-th entry of weights
StrengthStep(acc, factors, i) ==
    LET factor == weightKeys[i]
        factorScore == Lookup(factors, factor)
    IN  IF ValidFactor(factorScore)
        THEN [weightedScore |-> acc.weightedScore
                  + adjustedScore(factor, factorScore.num) * weights[factor],
              totalWeight |-> acc.totalWeight + weights[factor],
              breakdown |-> acc.breakdown @@
                  (factor :> [score |-> factorScore.num,
                              adjustedScore |-> adjustedScore(factor, factorScore.num),
                              weight |-> weights[factor],
                              contribution |->
                                  adjustedScore(factor, factorScore.num) * weights[factor]])]
        ELSE acc

RECURSIVE StrengthLoop(_, _)
StrengthLoop(factors, i) ==
    IF i = 0 THEN StrengthStart
    ELSE StrengthStep(StrengthLoop(factors, i - 1), factors, i)

\* finalScore = totalWeight > 0 ? weightedScore / totalWeight : 0, kept as the
\* fraction n/d in points (d > 0).
finalScoreUnguarded(acc) == [n |-> acc.weightedScore, d |-> 10 * acc.totalWeight]
finalScore(acc) ==
    IF acc.totalWeight > 0
    THEN [n |-> acc.weightedScore, d |-> 10 * acc.totalWeight]
    ELSE [n |-> 0, d |-> 1]

\* score >= k points, for the fraction score
AtLeast(score, k) == score.n >= k * score.d

confidenceLevel(factorCount, score) ==
    IF factorCount >= 5 /\ AtLeast(score, 7) THEN "high"
    ELSE IF factorCount >= 3 /\ AtLeast(score, 5) THEN "medium"
    ELSE "low"

getStrengthRecommendation(score) ==
    IF AtLeast(score, 8) THEN "Strong case"
    ELSE IF AtLeast(score, 6) THEN "Moderate case"
    ELSE IF AtLeast(score, 4) THEN "Weak case"
    ELSE "Very weak case"

\* Math.round(finalScore * 100) / 100, in hundredths of a point.  A zero
\* divisor makes the quotient NaN, which stays NaN through Math.round.
roundedScore(score) ==
    IF score.d = 0 THEN [nan |-> TRUE] ELSE Num(RoundDiv(100 * score.n, score.d))

\* if (!factors || typeof factors !== 'object') return {...}
strengthRejected == Return([score |-> Num(0), breakdown |-> << >>, confidence |-> "low"])

\* what follows the forEach, from the accumulators it left
strengthResult(acc) ==
    LET final == finalScore(acc)
    IN  Return([score |-> roundedScore(final),
                breakdown |-> acc.breakdown,
                confidence |-> confidenceLevel(Cardinality(DOMAIN acc.breakdown), final),
                recommendation |-> getStrengthRecommendation(final)])

calculateCaseStrength(factors) ==
    IF ~("object" \in DOMAIN factors) THEN strengthRejected
    ELSE strengthResult(StrengthLoop(factors.object, Len(weightKeys)))

----------------------------------------------------------------------------
(* calculateStatuteOfLimitations                                           *)
(* A Date is Valid(t), t in hours since 1970-01-01T00:00Z, or InvalidDate. *)
(* The host runs in UTC, so local and UTC calendar fields agree.  A date   *)
(* parameter is IsoDate(d), the string "YYYY-MM-DD" of day number d, any   *)
(* other string (which does not parse), null or undefined.                 *)

\* 1000 * 60 * 60 * 24 milliseconds, in clock units (hours)
MsPerDay == 24

Valid(t) == [t |-> t]
InvalidDate == [invalid |-> TRUE]
IsValidDate(d) == "t" \in DOMAIN d

IsoDate(d) == [iso |-> d]

\* Day number of the civil date y-m-d (proleptic Gregorian, 1970-01-01 is 0).
DaysFromCivil(y, m, d) ==
    LET yy == IF m <= 2 THEN y - 1 ELSE y
        era == yy \div 400
        yoe == yy - era * 400
        mp == IF m > 2 THEN m - 3 ELSE m + 9
        doy == (153 * mp + 2) \div 5 + d - 1
        doe == yoe * 365 + yoe \div 4 - yoe \div 100 + doy
    IN  era * 146097 + doe - 719468

\* The civil date of day number z.
CivilFromDays(z) ==
    LET zz == z + 719468
        era == zz \div 146097
        doe == zz - era * 146097
        yoe == (doe - doe \div 1460 + doe \div 36524 - doe \div 146096) \div 365
        doy == doe - (365 * yoe + yoe \div 4 - yoe \div 100)
        mp == (5 * doy + 2) \div 153
        d == doy - (153 * mp + 2) \div 5 + 1
        m == IF mp < 10 THEN mp + 3 ELSE mp - 9
    IN  [year |-> IF m <= 2 THEN yoe + era * 400 + 1 ELSE yoe + era * 400,
         month |-> m, day |-> d]

\* new Date(value) for a truthy parameter value
NewDate(v) == IF "iso" \in DOMAIN v THEN Valid(v.iso * MsPerDay) ELSE InvalidDate

\* JavaScript truthiness of a parameter value
Truthy(v) ==
    /\ v # Null
    /\ v # Undefined
    /\ v # Str(<< >>)
    /\ v # Num(0)

\* e = new Date(date); e.setFullYear(e.getFullYear() + years): the same month,
\* day of month and time of day in the new year; a day of month the new year
\* lacks (29 February) runs over into the next month.  A non-numeric years
\* makes the sum NaN and the date invalid.
SetFullYearPlus(date, years) ==
    IF ~IsValidDate(date) \/ ~IsNum(years) THEN InvalidDate
    ELSE LET c == CivilFromDays(date.t \div MsPerDay)
         IN  Valid((DaysFromCivil(c.year + years.num, c.month, 1) + c.day - 1) * MsPerDay
                   + (date.t % MsPerDay))

\* standardPeriods, with the one inherited property a claimType sample hits
standardPeriods ==
    [ contract |-> [object |-> [written |-> Num(6), oral |-> Num(3)]],
      tort |-> [object |-> [personal_injury |-> Num(2), property_damage |-> Num(3),
                            professional_malpractice |-> Num(2)]],
      employment |-> [object |-> [discrimination |-> Num(1), wage_hour |-> Num(2)]],
      fraud |-> [object |-> [general |-> Num(3), securities |-> Num(3)]],
      general |-> Num(3),
      constructor |-> [function |-> "Object"] ]

\* a || b
OrElse(a, b) == IF Truthy(a) THEN a ELSE b

\* const solPeriod = standardPeriods[claimType] || standardPeriods.general
solPeriod(claimType) == OrElse(Lookup(standardPeriods, claimType), standardPeriods.general)

\* typeof solPeriod === 'object' ? solPeriod.written || solPeriod.general : solPeriod
solYears(period) ==
    IF "object" \in DOMAIN period
    THEN OrElse(Lookup(period.object, "written"), Lookup(period.object, "general"))
    ELSE period

\* accrualExpiry > discoveryExpiry ? accrualExpiry : discoveryExpiry
\* (a comparison with an invalid date is false)
finalExpiryEarlier(accrualExpiry, discoveryExpiry) ==
    IF IsValidDate(accrualExpiry) /\ IsValidDate(discoveryExpiry)
            /\ accrualExpiry.t < discoveryExpiry.t
    THEN accrualExpiry ELSE discoveryExpiry
finalExpiryOf(accrualExpiry, discoveryExpiry) ==
    IF IsValidDate(accrualExpiry) /\ IsValidDate(discoveryExpiry)
            /\ accrualExpiry.t > discoveryExpiry.t
    THEN accrualExpiry ELSE discoveryExpiry

\* Math.ceil(n / d), d > 0
Ceil(n, d) == 0 - ((0 - n) \div d)

\* Math.ceil((finalExpiry - today) / (1000 * 60 * 60 * 24))
daysRemainingReversed(finalExpiry, today) == Ceil(today - finalExpiry.t, MsPerDay)
daysRemainingOf(finalExpiry, today) == Ceil(finalExpiry.t - today, MsPerDay)

\* const today = new Date(): the instant the remaining days are counted
\* from.  filing is computed (line 777) and never read.
measuredFromFiling(filing, today) == IF IsValidDate(filing) THEN filing.t ELSE today
measuredFrom(filing, today) == today

\* is_expired: daysRemaining <= 0
isExpired(daysRemaining) == daysRemaining <= 0

\* is_critical: daysRemaining <= 30 && daysRemaining > 0
isCriticalNoFloor(daysRemaining) == daysRemaining <= 30
isCritical(daysRemaining) == daysRemaining <= 30 /\ daysRemaining > 0

getSOLRecommendation(daysRemaining) ==
    IF daysRemaining <= 0 THEN "CRITICAL"
    ELSE IF daysRemaining <= 30 THEN "URGENT"
    ELSE IF daysRemaining <= 90 THEN "WARNING"
    ELSE "Adequate time remaining"

\* date.toISOString().split('T')[0]: the UTC day, as a day number
IsoDay(date) == date.t \div MsPerDay

\* accrualDate ? new Date(accrualDate) : new Date(); new Date(null) would be
\* the epoch
accrualDefaultEpoch(clock) == Valid(0)
accrualDefault(clock) == Valid(clock)

\* The call, entered when the clock reads clock; today is the clock at the
\* last read (line 791).
calculateStatuteOfLimitations(params, clock, today) ==
    LET claimType == IF "claimType" \in DOMAIN params THEN params.claimType ELSE "general"
        years == solYears(solPeriod(claimType))
        accrual == IF Truthy(params.accrualDate) THEN NewDate(params.accrualDate)
                   ELSE accrualDefault(clock)
        discovery == IF Truthy(params.discoveryDate) THEN NewDate(params.discoveryDate)
                     ELSE accrual
        filing == IF Truthy(params.filingDate) THEN NewDate(params.filingDate)
                  ELSE Valid(clock)
        accrualExpiry == SetFullYearPlus(accrual, years)
        discoveryExpiry == SetFullYearPlus(discovery, years)
        finalExpiry == finalExpiryOf(accrualExpiry, discoveryExpiry)
    IN  IF ~IsValidDate(accrual) \/ ~IsValidDate(discovery) \/ ~IsValidDate(finalExpiry)
        THEN Throw("RangeError")      \* toISOString of an invalid date
        ELSE LET daysRemaining == daysRemainingOf(finalExpiry, measuredFrom(filing, today))
             IN  Return([sol_period_years |-> years,
                         accrual_date |-> IsoDay(accrual),
                         discovery_date |-> IsoDay(discovery),
                         expiration_date |-> IsoDay(finalExpiry),
                         days_remaining |-> daysRemaining,
                         is_expired |-> isExpired(daysRemaining),
                         is_critical |-> isCritical(daysRemaining),
                         recommendation |-> getSOLRecommendation(daysRemaining)])

----------------------------------------------------------------------------
(* calculateLitigationCosts                                                *)
(* Hourly rate, duration (months) and dispute value are whole numbers.     *)
(* The cost components are exact fractions, all in six-hundredths of a     *)
(* currency unit (600 is 1.00); the rounded outputs are whole units.       *)

\* object destructuring with a default: the default applies to an absent key
Default(obj, key, default) == IF key \in DOMAIN obj THEN obj[key] ELSE default

baseHours ==
    [ simple |-> [general |-> 50, contract |-> 40, employment |-> 60,
                  personal_injury |-> 80],
      medium |-> [general |-> 150, contract |-> 120, employment |-> 180,
                  personal_injury |-> 200],
      complex |-> [general |-> 400, contract |-> 300, employment |-> 500,
                   personal_injury |-> 600] ]

\* baseHours[complexity]?.[caseType] || baseHours[complexity].general
\* Reading .general of an undefined baseHours[complexity] raises TypeError.
estimatedHoursMediumGeneral(complexity, caseType) ==
    IF complexity \notin DOMAIN baseHours THEN Throw("TypeError")
    ELSE IF caseType \in DOMAIN baseHours[complexity]
    THEN Return(baseHours[complexity][caseType])
    ELSE Return(baseHours.medium.general)
estimatedHours(complexity, caseType) ==
    IF complexity \notin DOMAIN baseHours THEN Throw("TypeError")
    ELSE IF caseType \in DOMAIN baseHours[complexity]
    THEN Return(baseHours[complexity][caseType])
    ELSE Return(baseHours[complexity].general)

\* getCostRecommendation(totalCosts, disputeValue), totalCosts = total/600
getCostRecommendation(total, disputeValue) ==
    IF disputeValue = 0
    THEN "Non-monetary case - Consider alternative dispute resolution."
    ELSE IF 600 * disputeValue >= 3 * total 
    THEN "Favorable cost-benefit ratio - Litigation economically viable."
    ELSE IF 2 * 600 * disputeValue >= 3 * total 
    THEN "Moderate cost-benefit ratio - Proceed with caution."
    ELSE "Poor cost-benefit ratio - Consider settlement or alternative strategies."

\* riskAdjustedValue = disputeValue * 0.7, in six-hundredths
riskAdjustedValueUndiscounted(disputeValue) == disputeValue * 600
riskAdjustedValue(disputeValue) == disputeValue * 420

calculateLitigationCosts(caseParams) ==
    LET caseType == Default(caseParams, "caseType", "general")
        complexity == Default(caseParams, "complexity", "medium")
        jurisdiction == Default(caseParams, "jurisdiction", "state")
        estimatedDuration == Default(caseParams, "estimatedDuration", 12)
        hourlyRate == Default(caseParams, "hourlyRate", 500)
        disputeValue == Default(caseParams, "disputeValue", 0)
        hours == estimatedHours(complexity, caseType)
    IN  IF "threw" \in DOMAIN hours THEN hours
        ELSE
        LET h == hours.value
            \* jurisdictionMultiplier, in tenths: 1.3 or 1.0
            jm == IF jurisdiction = "federal" THEN 13 ELSE 10
            \* durationMultiplier = Math.max(0.8, estimatedDuration / 12), in sixtieths
            dm == Max(48, 5 * estimatedDuration)
            \* in six-hundredths
            attorneyFees == h * hourlyRate * jm * dm
            costs == [ attorney_fees |-> attorneyFees,
                       court_fees |-> 600 * (IF jurisdiction = "federal" THEN 1200 ELSE 800),
                       discovery_costs |-> 600 * h * 50,
                       expert_witnesses |-> 600 * (IF complexity = "complex" THEN 15000
                                                   ELSE IF complexity = "medium" THEN 7500
                                                   ELSE 2500),
                       depositions |-> 600 * Min(h * 75, 15 * 1500),
                       administrative |-> attorneyFees \div 10 ]
            totalCosts == costs.attorney_fees + costs.court_fees + costs.discovery_costs
                            + costs.expert_witnesses + costs.depositions
                            + costs.administrative
            \* contingencyFee = disputeValue * 0.33, in hundredths
            contingencyFee == IF disputeValue > 0 THEN disputeValue * 33 ELSE 0

        IN  Return([ breakdown |-> costs,
                     total_estimated_cost |-> RoundDiv(totalCosts, 600),
                     contingency_fee |-> RoundDiv(contingencyFee, 100),
                     net_expected_value |-> RoundDiv(riskAdjustedValue(disputeValue) - totalCosts,
                                                     600),
                     \* the fraction n/d
                     cost_benefit_ratio |-> IF disputeValue > 0
                                            THEN [n |-> riskAdjustedValue(disputeValue),
                                                  d |-> totalCosts]
                                            ELSE [n |-> 0, d |-> 1],
                     recommendation |-> getCostRecommendation(totalCosts, disputeValue) ])

----------------------------------------------------------------------------
(* calculateDamages                                                        *)
(* Money inputs are whole numbers, punitiveMultiplier is in tenths,        *)
(* interestRate in twentieths (1 is 0.05) and timePeriod a whole number    *)
(* of years.  Amounts of the breakdown are fractions n/d.                  *)

RECURSIVE Power(_, _)
Power(b, e) == IF e = 0 THEN 1 ELSE b * Power(b, e - 1)

\* getDamageRecommendation(damages): the text appended after the total.
\* base = compensatory.total + non_economic.total, in halves; punitive in
\* twentieths.  With base = 0 the ratio is NaN and no comparison holds.
getDamageRecommendationNonEconomicFirst(punitive20, base2, nonEconomic2, compensatory) ==
    IF nonEconomic2 > 2 * compensatory
    THEN "Non-economic damages significant - ensure strong documentation."
    ELSE IF base2 # 0 /\ punitive20 > 3 * 10 * base2
    THEN "High punitive damages may face constitutional challenges."
    ELSE "Damage calculation appears reasonable and supportable."
getDamageRecommendation(punitive20, base2, nonEconomic2, compensatory) ==
    IF base2 # 0 /\ punitive20 > 3 * 10 * base2
    THEN "High punitive damages may face constitutional challenges."
    ELSE IF nonEconomic2 > 2 * compensatory
    THEN "Non-economic damages significant - ensure strong documentation."
    ELSE "Damage calculation appears reasonable and supportable."

\* damages.punitive = totalCompensatory * punitiveMultiplier: halves times
\* tenths, in twentieths
punitiveDefaulted(base2, punitiveMultiplier) ==
    base2 * (IF punitiveMultiplier = 0 THEN 10 ELSE punitiveMultiplier)
punitive(base2, punitiveMultiplier) == base2 * punitiveMultiplier

calculateDamages(damageParams) ==
    LET economicLoss == Default(damageParams, "economicLoss", 0)
        lostProfits == Default(damageParams, "lostProfits", 0)
        medicalExpenses == Default(damageParams, "medicalExpenses", 0)
        painAndSuffering == Default(damageParams, "painAndSuffering", 0)
        punitiveMultiplier == Default(damageParams, "punitiveMultiplier", 10)
        interestRate == Default(damageParams, "interestRate", 1)
        timePeriod == Default(damageParams, "timePeriod", 1)
        compensatory == economicLoss + lostProfits + medicalExpenses
        \* non_economic.total = painAndSuffering + painAndSuffering * 0.5, in halves
        nonEconomic2 == 3 * painAndSuffering
        \* totalCompensatory, in halves
        base2 == 2 * compensatory + nonEconomic2
        \* punitive = totalCompensatory * punitiveMultiplier, in twentieths
        punitive20 == punitive(base2, punitiveMultiplier)
        \* Math.pow(1 + interestRate, timePeriod) = growth / unit
        growth == Power(20 + interestRate, timePeriod)
        unit == Power(20, timePeriod)
        \* interest = base * pow - base, over 2 * unit
        interestN == base2 * growth - base2 * unit
        \* total = base + punitive + interest, over 20 * unit
        totalN == 10 * unit * base2 + unit * punitive20 + 10 * interestN
        totalD == 20 * unit
    IN  Return([ breakdown |->
                   [ compensatory |-> [economic_loss |-> economicLoss,
                                       lost_profits |-> lostProfits,
                                       medical_expenses |-> medicalExpenses,
                                       total |-> compensatory],
                     non_economic |-> [pain_and_suffering |-> painAndSuffering,
                                       emotional_distress |-> [n |-> painAndSuffering, d |-> 2],
                                       total |-> [n |-> nonEconomic2, d |-> 2]],
                     punitive |-> [n |-> punitive20, d |-> 20],
                     interest |-> [n |-> interestN, d |-> 2 * unit],
                     total |-> [n |-> totalN, d |-> totalD] ],
                 total_damages |-> RoundDiv(totalN, totalD),
                 \* damages.total / Math.pow(1 + interestRate, timePeriod)
                 present_value |-> RoundDiv(totalN, 20 * growth),
                 recommendation |->
                   [ total |-> RoundDiv(totalN, totalD),
                     text |-> getDamageRecommendation(punitive20, base2, nonEconomic2,
                                                      compensatory) ] ])

----------------------------------------------------------------------------
(* calculateSettlementRange                                                *)
(* damageEstimate, litigationCosts and timeToTrial are whole numbers,      *)
(* caseStrength is in tenths of a point.                                   *)

\* riskFactors, in tenths
riskFactors == [low |-> 6, medium |-> 7, high |-> 8]

\* riskFactors[riskTolerance] || 0.7
riskFactorOf(riskTolerance) ==
    IF riskTolerance \in DOMAIN riskFactors THEN riskFactors[riskTolerance] ELSE 7

getSettlementRecommendation(caseStrength) ==
    IF caseStrength >= 80
    THEN "Strong case - Can demand higher settlement amounts."
    ELSE IF caseStrength >= 60
    THEN "Moderate case - Settlement likely preferable to trial risk."
    ELSE IF caseStrength <= 40
    THEN "Weak case - Strongly consider any reasonable settlement offer."
    ELSE "Evaluate settlement opportunities based on risk tolerance and costs."

\* Math.max(0, Math.round(timeAdjustedMin)), timeAdjustedMin in millionths
minimumAcceptableUnfloored(timeAdjustedMin) == RoundDiv(timeAdjustedMin, 1000000)
minimumAcceptable(timeAdjustedMin) == Max(0, RoundDiv(timeAdjustedMin, 1000000))

calculateSettlementRange(settlementParams) ==
    LET damageEstimate == Default(settlementParams, "damageEstimate", 0)
        caseStrength == Default(settlementParams, "caseStrength", 50)
        litigationCosts == Default(settlementParams, "litigationCosts", 0)
        timeToTrial == Default(settlementParams, "timeToTrial", 12)
        riskTolerance == Default(settlementParams, "riskTolerance", "medium")
        riskFactor == riskFactorOf(riskTolerance)
        \* expectedValue = damageEstimate * (caseStrength / 10) * riskFactor, in thousandths
        expectedValue == damageEstimate * caseStrength * riskFactor
        \* in ten-thousandths
        minSettlement == 6 * expectedValue - 5000 * litigationCosts
        maxSettlement == 12 * expectedValue
        optimalSettlement == 10 * expectedValue - 3000 * litigationCosts
        \* timeDiscountFactor = Math.max(0.8, 1 - timeToTrial / 100), in hundredths
        timeDiscountFactor == Max(80, 100 - timeToTrial)
        \* in millionths
        timeAdjustedMin == minSettlement * timeDiscountFactor
        timeAdjustedOptimal == optimalSettlement * timeDiscountFactor
    IN  Return([ minimum_acceptable |-> minimumAcceptable(timeAdjustedMin),
                 optimal_target |-> RoundDiv(timeAdjustedOptimal, 1000000),
                 maximum_reasonable |-> RoundDiv(maxSettlement, 10000),
                 expected_value |-> RoundDiv(expectedValue, 1000),
                 recommendation |-> getSettlementRecommendation(caseStrength),
                 factors |-> [ case_strength |-> [n |-> caseStrength, d |-> 100],
                               risk_adjustment |-> [n |-> riskFactor, d |-> 10],
                               time_discount |-> [n |-> timeDiscountFactor, d |-> 100] ] ])

----------------------------------------------------------------------------
(* Strings and regular expressions                                         *)

\* The decimal digits of a natural number, as String(n) gives them.
RECURSIVE Digits(_)
Digits(n) ==
    LET d == <<"0", "1", "2", "3", "4", "5", "6", "7", "8", "9">>
    IN  IF n < 10 THEN <<d[n + 1]>> ELSE Digits(n \div 10) \o <<d[(n % 10) + 1]>>

\* `${v}`: the text a template literal inserts for a string or a number.
TemplateText(v) ==
    IF IsStr(v) THEN v.str
    ELSE IF IsNum(v) THEN Digits(v.num)
    ELSE IF v = Null THEN <<"n", "u", "l", "l">>
    ELSE <<"u", "n", "d", "e", "f", "i", "n", "e", "d">>

WhiteSpace == {" ", "\t", "\n", "\r"}
LineTerminators == {"\n", "\r"}
DecimalDigits == {"0", "1", "2", "3", "4", "5", "6", "7", "8", "9"}

\* A regular expression is a sequence of tokens.  A token matches between
\* min and max characters of a class (greedy: the longest first; lazy: the
\* shortest first) and may capture them as group cap; an "opt" token opens a
\* greedy optional group that ends before token skip.
\*   any: .   ws: \s   digit: \d   section: [^\s\(]   nonws: \S   a literal: itself
InClass(c, cls) ==
    CASE cls = "any" -> c \notin LineTerminators
      [] cls = "ws" -> c \in WhiteSpace
      [] cls = "digit" -> c \in DecimalDigits
      [] cls = "section" -> c \notin WhiteSpace /\ c # "("
      [] cls = "nonws" -> c \notin WhiteSpace
      [] cls = "notcomma" -> c # ","
      [] cls = "all" -> TRUE
      [] OTHER -> c = cls

Tok(cls, min, max, lazy, cap) ==
    [cls |-> cls, min |-> min, max |-> max, lazy |-> lazy, cap |-> cap]
Opt(skip) == [opt |-> TRUE, skip |-> skip]

Unbounded == 0 - 1
NoCapture == 0

\* The longest run of at most max characters of class cls from position pos.
RECURSIVE RunLength(_, _, _, _)
RunLength(s, pos, cls, max) ==
    IF max = 0 \/ pos > Len(s) \/ ~InClass(s[pos], cls) THEN 0
    ELSE 1 + RunLength(s, pos + 1, cls, IF max = Unbounded THEN max ELSE max - 1)

NoMatch == [matched |-> FALSE]

\* The backtracking matcher, anchored at both ends (^...$): the first match,
\* in the engine's order of preference, of tokens i.. against s from pos.
\* caps maps each group captured so far to its <<first, last>> positions.
RECURSIVE MatchFrom(_, _, _, _, _)
RECURSIVE TryLengths(_, _, _, _, _, _, _)
MatchFrom(re, s, i, pos, caps) ==
    IF i > Len(re)
    THEN IF pos = Len(s) + 1 THEN [matched |-> TRUE, caps |-> caps] ELSE NoMatch
    ELSE IF "opt" \in DOMAIN re[i]
    THEN LET taken == MatchFrom(re, s, i + 1, pos, caps)
         IN  IF taken.matched THEN taken
             ELSE MatchFrom(re, s, re[i].skip, pos, caps)
    ELSE LET run == RunLength(s, pos, re[i].cls, re[i].max)
         IN  IF run < re[i].min THEN NoMatch
             ELSE TryLengths(re, s, i, pos, caps,
                             IF re[i].lazy THEN re[i].min ELSE run, run)
\* Token i takes k characters; on failure the next length in its order.
TryLengths(re, s, i, pos, caps, k, run) ==
    LET caps2 == IF re[i].cap = NoCapture THEN caps
                 ELSE (re[i].cap :> <<pos, pos + k - 1>>) @@ caps
        rest == MatchFrom(re, s, i + 1, pos + k, caps2)
    IN  IF rest.matched THEN rest
        ELSE IF re[i].lazy
             THEN IF k < run THEN TryLengths(re, s, i, pos, caps, k + 1, run)
                  ELSE NoMatch
             ELSE IF k > re[i].min THEN TryLengths(re, s, i, pos, caps, k - 1, run)
                  ELSE NoMatch

\* citation.match(re): the groups of the first match, or NoMatch.
RegexMatch(re, s) == MatchFrom(re, s, 1, 1, << >>)

\* match[g]: the text of group g, undefined for a group that took no part.
Group(s, m, g) ==
    IF g \in DOMAIN m.caps
    THEN Str(SubSeq(s, m.caps[g][1], m.caps[g][2]))
    ELSE Undefined

\* String.prototype.trim
RECURSIVE TrimStart(_)
TrimStart(s) == IF s # << >> /\ Head(s) \in WhiteSpace THEN TrimStart(Tail(s)) ELSE s
RECURSIVE TrimEnd(_)
TrimEnd(s) ==
    IF s # << >> /\ s[Len(s)] \in WhiteSpace
    THEN TrimEnd(SubSeq(s, 1, Len(s) - 1)) ELSE s
Trim(s) == TrimEnd(TrimStart(s))

\* String.prototype.includes
Includes(s, t) ==
    \E i \in 1..(Len(s) - Len(t) + 1) : SubSeq(s, i, i + Len(t) - 1) = t

----------------------------------------------------------------------------
(* citationFormatter: formatCaseCitation, formatStatuteCitation,           *)
(* parseCitation                                                           *)

\* A citation record is Null, Undefined or [object |-> fields]; a field the
\* object lacks reads as undefined.
Field(data, name) == Lookup(data.object, name)

\* what "Add court and year if available" appends to the citation
courtAndYearTogether(court, year) ==
    IF Truthy(court) /\ Truthy(year)
    THEN <<" ", "(">> \o TemplateText(court) \o <<" ">> \o TemplateText(year) \o <<")">>
    ELSE << >>
courtAndYear(court, year) ==
    IF Truthy(court) /\ Truthy(year)
    THEN <<" ", "(">> \o TemplateText(court) \o <<" ">> \o TemplateText(year) \o <<")">>
    ELSE IF Truthy(year)
    THEN <<" ", "(">> \o TemplateText(year) \o <<")">>
    ELSE << >>

formatCaseCitation(caseData) ==
    IF ~("object" \in DOMAIN caseData) THEN << >>
    ELSE LET case_name == Field(caseData, "case_name")
             volume == Field(caseData, "volume")
             reporter == Field(caseData, "reporter")
             page == Field(caseData, "page")
             court == Field(caseData, "court")
             year == Field(caseData, "year")
             cited == IF Truthy(volume) /\ Truthy(reporter) /\ Truthy(page)
                      THEN TemplateText(case_name) \o <<",", " ">> \o TemplateText(volume)
                           \o <<" ">> \o TemplateText(reporter) \o <<" ">>
                           \o TemplateText(page)
                      ELSE TemplateText(case_name)
         IN  IF ~Truthy(case_name) THEN << >>
             ELSE cited \o courtAndYear(court, year)

\* Array.prototype.join(separator) of the texts in parts
RECURSIVE Join(_, _)
Join(parts, separator) ==
    IF parts = << >> THEN << >>
    ELSE IF Len(parts) = 1 THEN parts[1]
    ELSE parts[1] \o separator \o Join(Tail(parts), separator)

JoinSpace(parts) == Join(parts, <<" ">>)

\* if (edition && edition !== '1') pubInfo.push(`${edition} ed.`)
editionInfoAny(edition) ==
    IF Truthy(edition)
    THEN << TemplateText(edition) \o <<" ", "e", "d", ".">> >>
    ELSE << >>
editionInfo(edition) ==
    IF Truthy(edition) /\ edition # Str(<<"1">>)
    THEN << TemplateText(edition) \o <<" ", "e", "d", ".">> >>
    ELSE << >>

formatBookCitation(bookData) ==
    IF ~("object" \in DOMAIN bookData) THEN << >>
    ELSE LET author == Field(bookData, "author")
             title == Field(bookData, "title")
             page == Field(bookData, "page")
             edition == Field(bookData, "edition")
             year == Field(bookData, "year")
             cited == TemplateText(author) \o <<",", " ">> \o TemplateText(title)
                      \o (IF Truthy(page)
                          THEN <<",", " ", "a", "t", " ">> \o TemplateText(page)
                          ELSE << >>)
             pubInfo == editionInfo(edition)
                        \o (IF Truthy(year) THEN <<TemplateText(year)>> ELSE << >>)
         IN  IF ~Truthy(author) \/ ~Truthy(title) THEN << >>
             ELSE IF Len(pubInfo) > 0
             THEN cited \o <<" ", "(">> \o JoinSpace(pubInfo) \o <<")">>
             ELSE cited

USC == <<"U", ".", "S", ".", "C", ".">>
SectionMark == <<" ", "§", " ">>

\* citation += ` (${year})` when year is truthy
WithYear(citation, year) ==
    IF Truthy(year) THEN citation \o <<" ", "(">> \o TemplateText(year) \o <<")">>
    ELSE citation

formatStatuteCitation(statuteData) ==
    IF ~("object" \in DOMAIN statuteData) THEN << >>
    ELSE LET title == Field(statuteData, "title")
             code_section == Field(statuteData, "code_section")
             code_name == Field(statuteData, "code_name")
             jurisdiction == Field(statuteData, "jurisdiction")
             year == Field(statuteData, "year")
         IN  IF ~Truthy(title) /\ ~Truthy(code_section) THEN << >>
             ELSE IF jurisdiction = Str(<<"F", "e", "d", "e", "r", "a", "l">>)
                     \/ jurisdiction = Str(<<"f", "e", "d", "e", "r", "a", "l">>)
             THEN IF Truthy(title) /\ Truthy(code_section)
                  THEN WithYear(TemplateText(title) \o <<" ">> \o USC \o SectionMark
                                \o TemplateText(code_section), year)
                  ELSE << >>
             ELSE WithYear(
                    IF Truthy(code_name) /\ Truthy(code_section)
                    THEN TemplateText(code_name) \o SectionMark \o TemplateText(code_section)
                    ELSE IF Truthy(title) /\ Truthy(code_section)
                    THEN TemplateText(OrElse(jurisdiction, Str(<<"S", "t", "a", "t", "e">>)))
                         \o <<" ", "C", "o", "d", "e">> \o SectionMark
                         \o TemplateText(code_section)
                    ELSE << >>,
                    year)

USConst == <<"U", ".", "S", ".", " ", "C", "o", "n", "s", "t", ".">>

\* citation += `, § ${section}` when section is truthy
WithSection(citation, section) ==
    IF Truthy(section) THEN citation \o <<",">> \o SectionMark \o TemplateText(section)
    ELSE citation

formatConstitutionalCitation(constitutionData) ==
    IF ~("object" \in DOMAIN constitutionData) THEN << >>
    ELSE LET article == Field(constitutionData, "article")
             section == Field(constitutionData, "section")
             clause == Field(constitutionData, "clause")
             amendment == Field(constitutionData, "amendment")
             jurisdiction == IF Field(constitutionData, "jurisdiction") = Undefined
                             THEN Str(<<"U", ".", "S", ".">>)
                             ELSE Field(constitutionData, "jurisdiction")
         IN  IF jurisdiction = Str(<<"U", ".", "S", ".">>)
                \/ jurisdiction = Str(<<"F", "e", "d", "e", "r", "a", "l">>)
             THEN IF Truthy(amendment)
                  THEN WithSection(USConst \o <<" ", "a", "m", "e", "n", "d", ".", " ">>
                                   \o TemplateText(amendment), section)
                  ELSE IF Truthy(article)
                  THEN WithSection(USConst \o <<" ", "a", "r", "t", ".", " ">>
                                   \o TemplateText(article), section)
                       \o (IF Truthy(clause)
                           THEN <<",", " ", "c", "l", ".", " ">> \o TemplateText(clause)
                           ELSE << >>)
                  ELSE << >>
             ELSE WithSection(TemplateText(jurisdiction) \o <<" ", "C", "o", "n", "s", "t", ".">>
                              \o (IF Truthy(article)
                                  THEN <<" ", "a", "r", "t", ".", " ">> \o TemplateText(article)
                                  ELSE << >>),
                              section)

formatJournalCitation(articleData) ==
    IF ~("object" \in DOMAIN articleData) THEN << >>
    ELSE LET author == Field(articleData, "author")
             title == Field(articleData, "title")
             volume == Field(articleData, "volume")
             journal == Field(articleData, "journal")
             page == Field(articleData, "page")
             year == Field(articleData, "year")
         IN  IF ~Truthy(title) \/ ~Truthy(journal) THEN << >>
             ELSE WithYear(
                    (IF Truthy(author) THEN TemplateText(author) \o <<",", " ">> ELSE << >>)
                    \o TemplateText(title)
                    \o (IF Truthy(volume) /\ Truthy(page)
                        THEN <<",", " ">> \o TemplateText(volume) \o <<" ">>
                             \o TemplateText(journal) \o <<" ">> \o TemplateText(page)
                        ELSE <<",", " ">> \o TemplateText(journal)),
                    year)

formatRegulationCitation(regulationData) ==
    IF ~("object" \in DOMAIN regulationData) THEN << >>
    ELSE LET title == Field(regulationData, "title")
             section == Field(regulationData, "section")
             year == Field(regulationData, "year")
             jurisdiction == Field(regulationData, "jurisdiction")
         IN  IF ~Truthy(title) \/ ~Truthy(section) THEN << >>
             ELSE WithYear(
                    IF jurisdiction = Str(<<"F", "e", "d", "e", "r", "a", "l">>)
                       \/ jurisdiction = Str(<<"f", "e", "d", "e", "r", "a", "l">>)
                    THEN TemplateText(title) \o <<" ", "C", ".", "F", ".", "R", ".">>
                         \o SectionMark \o TemplateText(section)
                    ELSE TemplateText(OrElse(jurisdiction, Str(<<"S", "t", "a", "t", "e">>)))
                         \o <<" ", "R", "e", "g", ".">> \o SectionMark
                         \o TemplateText(section),
                    year)

\* the switch on citation.type: the text one entry of the list maps to
formatEntry(citation) ==
    LET type == Field(citation, "type")
    IN  IF type = Str(<<"c", "a", "s", "e">>) THEN formatCaseCitation(citation)
        ELSE IF type = Str(<<"s", "t", "a", "t", "u", "t", "e">>)
        THEN formatStatuteCitation(citation)
        ELSE IF type = Str(<<"c", "o", "n", "s", "t", "i", "t", "u", "t", "i", "o", "n">>)
        THEN formatConstitutionalCitation(citation)
        ELSE IF type = Str(<<"j", "o", "u", "r", "n", "a", "l">>)
        THEN formatJournalCitation(citation)
        ELSE IF type = Str(<<"b", "o", "o", "k">>) THEN formatBookCitation(citation)
        ELSE IF type = Str(<<"r", "e", "g", "u", "l", "a", "t", "i", "o", "n">>)
        THEN formatRegulationCitation(citation)
        \* citation.citation || citation.text || ''
        ELSE OrElse(OrElse(Field(citation, "citation"), Field(citation, "text")),
                    Str(<< >>)).str

\* .filter(citation => citation.trim() !== '')
keepsEverything(citation) == TRUE
keeps(citation) == Trim(citation) # << >>

formatMultipleCitations(citations) ==
    IF ~("array" \in DOMAIN citations) \/ Len(citations.array) = 0 THEN << >>
    ELSE LET formattedCitations ==
                 SelectSeq([i \in DOMAIN citations.array |-> formatEntry(citations.array[i])],
                           keeps)
         IN  Join(formattedCitations, <<";", " ">>)

\* citation.includes('v.') || citation.includes(' v ')
hasPartiesDotOnly(citation) == Includes(citation, <<"v", ".">>)
hasParties(citation) ==
    Includes(citation, <<"v", ".">>) \/ Includes(citation, <<" ", "v", " ">>)

\* the errors and suggestions the switch on type pushes
validationErrors(citation, type) ==
    IF type = "case" /\ ~hasParties(citation)
    THEN [errors |-> <<"Case name should include \"v.\" between parties">>,
          suggestions |-> <<"Format: Plaintiff v. Defendant, Citation (Court Year)">>]
    ELSE IF type = "statute" /\ ~Includes(citation, <<"§">>)
            /\ ~Includes(citation, <<"s", "e", "c", ".">>)
    THEN [errors |-> <<"Statute citation should include section symbol (§)">>,
          suggestions |-> <<"Format: Title Code § Section (Year)">>]
    ELSE IF type = "constitution" /\ ~Includes(citation, <<"C", "o", "n", "s", "t", ".">>)
    THEN [errors |-> <<"Constitutional citation should include \"Const.\"">>,
          suggestions |-> <<"Format: U.S. Const. art. I, § 8 or U.S. Const. amend. XIV">>]
    ELSE [errors |-> << >>, suggestions |-> << >>]

\* args is [citation |-> value] or [citation |-> value, type |-> string]:
\* type defaults to 'case'
validateCitation(args) ==
    LET citation == args.citation
        type == IF "type" \in DOMAIN args THEN args.type ELSE "case"
    IN  IF ~Truthy(citation) \/ ~IsStr(citation)
        THEN Return([isValid |-> FALSE,
                     errors |-> <<"Citation is required and must be a string">>,
                     suggestions |-> << >>])
        ELSE LET found == validationErrors(citation.str, type)
             IN  Return([isValid |-> Len(found.errors) = 0,
                         errors |-> found.errors,
                         suggestions |-> found.suggestions])

\* A pattern that is not anchored matches at the leftmost start: a lazy run
\* of any characters stands before it and a run of any characters after it.

\* /^([^,]+)/
leadRegex ==
    << Tok("notcomma", 1, Unbounded, FALSE, 1), Tok("all", 0, Unbounded, FALSE, NoCapture) >>

\* caseName.split(/\s+v\.?\s+/)[0]: group 1 is the text before the first
\* separator
partiesRegexDotRequired ==
    << Tok("all", 0, Unbounded, TRUE, 1), Tok("ws", 1, Unbounded, FALSE, NoCapture),
       Tok("v", 1, 1, FALSE, NoCapture), Tok(".", 1, 1, FALSE, NoCapture),
       Tok("ws", 1, Unbounded, FALSE, NoCapture),
       Tok("all", 0, Unbounded, FALSE, NoCapture) >>
partiesRegex ==
    << Tok("all", 0, Unbounded, TRUE, 1), Tok("ws", 1, Unbounded, FALSE, NoCapture),
       Tok("v", 1, 1, FALSE, NoCapture), Tok(".", 0, 1, FALSE, NoCapture),
       Tok("ws", 1, Unbounded, FALSE, NoCapture),
       Tok("all", 0, Unbounded, FALSE, NoCapture) >>

\* /§\s*([^\s\(]+)/
sectionRegex ==
    << Tok("all", 0, Unbounded, TRUE, NoCapture), Tok("§", 1, 1, FALSE, NoCapture),
       Tok("ws", 0, Unbounded, FALSE, NoCapture), Tok("section", 1, Unbounded, FALSE, 1),
       Tok("all", 0, Unbounded, FALSE, NoCapture) >>

\* args is [fullCitation |-> value] or [fullCitation |-> value, type |->
\* string]: type defaults to 'case'
generateShortForm(args) ==
    LET fullCitation == args.fullCitation
        type == IF "type" \in DOMAIN args THEN args.type ELSE "case"
    IN  IF ~Truthy(fullCitation) THEN Return(Str(<< >>))
        ELSE IF type = "case"
        THEN LET match == RegexMatch(leadRegex, fullCitation.str)
             IN  IF match.matched
                 THEN LET caseName == Group(fullCitation.str, match, 1).str
                          parts == RegexMatch(partiesRegex, caseName)
                      IN  IF parts.matched THEN Return(Group(caseName, parts, 1))
                          ELSE Return(Str(caseName))
                 ELSE Return(fullCitation)
        ELSE IF type = "statute"
        THEN LET sectionMatch == RegexMatch(sectionRegex, fullCitation.str)
             IN  IF sectionMatch.matched
                 THEN Return(Str(<<"§", " ">> \o Group(fullCitation.str, sectionMatch, 1).str))
                 ELSE Return(fullCitation)
        ELSE Return(fullCitation)

\* /^(.+?),\s*(\d+)\s+(.+?)\s+(\d+)\s*\((.+?)\s+(\d{4})\)$/
caseRegexReporterNoSpace ==
    << Tok("any", 1, Unbounded, TRUE, 1), Tok(",", 1, 1, FALSE, NoCapture),
       Tok("ws", 0, Unbounded, FALSE, NoCapture), Tok("digit", 1, Unbounded, FALSE, 2),
       Tok("ws", 1, Unbounded, FALSE, NoCapture), Tok("nonws", 1, Unbounded, TRUE, 3),
       Tok("ws", 1, Unbounded, FALSE, NoCapture), Tok("digit", 1, Unbounded, FALSE, 4),
       Tok("ws", 0, Unbounded, FALSE, NoCapture), Tok("(", 1, 1, FALSE, NoCapture),
       Tok("any", 1, Unbounded, TRUE, 5), Tok("ws", 1, Unbounded, FALSE, NoCapture),
       Tok("digit", 4, 4, FALSE, 6), Tok(")", 1, 1, FALSE, NoCapture) >>
caseRegex ==
    << Tok("any", 1, Unbounded, TRUE, 1), Tok(",", 1, 1, FALSE, NoCapture),
       Tok("ws", 0, Unbounded, FALSE, NoCapture), Tok("digit", 1, Unbounded, FALSE, 2),
       Tok("ws", 1, Unbounded, FALSE, NoCapture), Tok("any", 1, Unbounded, TRUE, 3),
       Tok("ws", 1, Unbounded, FALSE, NoCapture), Tok("digit", 1, Unbounded, FALSE, 4),
       Tok("ws", 0, Unbounded, FALSE, NoCapture), Tok("(", 1, 1, FALSE, NoCapture),
       Tok("any", 1, Unbounded, TRUE, 5), Tok("ws", 1, Unbounded, FALSE, NoCapture),
       Tok("digit", 4, 4, FALSE, 6), Tok(")", 1, 1, FALSE, NoCapture) >>

\* /^(\d+)\s+(.+?)\s+§\s+([^\s\(]+)(?:\s*\((\d{4})\))?$/
statuteRegexYearRequired ==
    << Tok("digit", 1, Unbounded, FALSE, 1), Tok("ws", 1, Unbounded, FALSE, NoCapture),
       Tok("any", 1, Unbounded, TRUE, 2), Tok("ws", 1, Unbounded, FALSE, NoCapture),
       Tok("§", 1, 1, FALSE, NoCapture), Tok("ws", 1, Unbounded, FALSE, NoCapture),
       Tok("section", 1, Unbounded, FALSE, 3),
       Tok("ws", 0, Unbounded, FALSE, NoCapture), Tok("(", 1, 1, FALSE, NoCapture),
       Tok("digit", 4, 4, FALSE, 4), Tok(")", 1, 1, FALSE, NoCapture) >>
statuteRegex ==
    << Tok("digit", 1, Unbounded, FALSE, 1), Tok("ws", 1, Unbounded, FALSE, NoCapture),
       Tok("any", 1, Unbounded, TRUE, 2), Tok("ws", 1, Unbounded, FALSE, NoCapture),
       Tok("§", 1, 1, FALSE, NoCapture), Tok("ws", 1, Unbounded, FALSE, NoCapture),
       Tok("section", 1, Unbounded, FALSE, 3),
       Opt(13),
       Tok("ws", 0, Unbounded, FALSE, NoCapture), Tok("(", 1, 1, FALSE, NoCapture),
       Tok("digit", 4, 4, FALSE, 4), Tok(")", 1, 1, FALSE, NoCapture) >>

\* result.components when the text does not match the type's pattern
unmatchedComponents(citation) == << >>

parseCitation(citation, type) ==
    IF ~Truthy(citation) THEN Return(Null)
    ELSE LET text == citation.str
             components ==
                 CASE type = "case" ->
                        LET caseMatch == RegexMatch(caseRegex, text)
                        IN  IF caseMatch.matched
                            THEN [case_name |-> Str(Trim(Group(text, caseMatch, 1).str)),
                                  volume |-> Group(text, caseMatch, 2),
                                  reporter |-> Group(text, caseMatch, 3),
                                  page |-> Group(text, caseMatch, 4),
                                  court |-> Group(text, caseMatch, 5),
                                  year |-> Group(text, caseMatch, 6)]
                            ELSE unmatchedComponents(text)
                   [] type = "statute" ->
                        LET statuteMatch == RegexMatch(statuteRegex, text)
                        IN  IF statuteMatch.matched
                            THEN [title |-> Group(text, statuteMatch, 1),
                                  code_name |-> Group(text, statuteMatch, 2),
                                  section |-> Group(text, statuteMatch, 3),
                                  year |-> Group(text, statuteMatch, 4)]
                            ELSE unmatchedComponents(text)
                   [] OTHER -> [text |-> Str(text)]
         IN  Return([original |-> citation, type |-> type, components |-> components])

----------------------------------------------------------------------------
(* Inputs of calculateCaseStrength *)

\* How far above 10 the sampled factor values go (tenths of a point).
MaxOutOfRange == 1

\* A key outside the six known factor names.
UnknownKeys == {"witness_credibility"}

FactorValues ==
    {Undefined, Str(<<"h", "i">>), Num(0 - 1), Num(0), Num(70), Num(100)}
        \cup {Num(100 + k) : k \in 1..MaxOutOfRange}

\* An object: the keys that carry undefined are the keys it does not have.
ObjectOf(f) == [k \in {j \in DOMAIN f : f[j] # Undefined} |-> f[k]]

RangeOf(s) == {s[i] : i \in DOMAIN s}

\* The factor objects whose known factors take their values in values, with
\* and without an unknown key.
FactorObjects(values) ==
    {[object |-> ObjectOf(known @@ extra)] :
        known \in [RangeOf(weightKeys) -> values],
        extra \in [UnknownKeys -> {Undefined, Num(50)}]}

\* Complete factor objects whose weighted average lies next to the
\* confidence threshold of 7.
ThresholdObjects ==
    {[object |-> known] :
        known \in [RangeOf(weightKeys) -> {Num(30), Num(69), Num(70), Num(71)}]}

\* Partial factor objects around the inversion: opposing_arguments and two
\* other factors at 3.0 or 7.0 or missing, next to a value that is no number.
InvertedObjects ==
    {[object |-> ObjectOf(known @@ [legal_authority |-> Str(<<"7">>)])] :
        known \in [{"opposing_arguments", "factual_strength", "evidence_quality"}
                       -> {Undefined, Num(30), Num(70)}]}

----------------------------------------------------------------------------
(* The caller *)

InitStrength ==
    /\ pc = "ready"
    /\ fn = "calculateCaseStrength"
    /\ arg \in FactorObjects(FactorValues) \cup ThresholdObjects \cup InvertedObjects
                  \cup {Null, Undefined, Num(70)}
    /\ ret = Pending
    /\ now = 0
    /\ reads = << >>
    /\ prior = NoPrior
    /\ NothingElsewhere

CallCalculateCaseStrength ==
    /\ pc = "ready"
    /\ fn = "calculateCaseStrength"
    /\ ret' = calculateCaseStrength(arg)
    /\ pc' = "done"
    /\ UNCHANGED <<fn, arg, now, reads, prior>>
    /\ UNCHANGED elsewhere

NextStrength == CallCalculateCaseStrength

SpecStrength == InitStrength /\ [][NextStrength]_vars

----------------------------------------------------------------------------
(* Inputs of calculateStatuteOfLimitations *)

\* How many days around the anniversaries the sampled dates spread.
MaxDayOffset == 1

\* How many clock units can pass between the first and the last clock read.
MaxClockDrift == 1

\* The calls are made on 2023-03-01, at 00:00, 01:00 or 23:00.
NowDay == DaysFromCivil(2023, 3, 1)
NowInstants == {NowDay * MsPerDay + h : h \in {0, 1, 23}}

\* Day offsets: around the anniversary, 35 days before it (400 days and a
\* one-year period), and 20, 30 and 31 days after it.
DayOffsets == ((0 - MaxDayOffset)..MaxDayOffset) \cup {0 - 35, 20, 30, 31}

\* Dates three and six years before the day of the call (2020-02-29 is one).
DateInputs ==
    {Null, Str(<<"n", "/", "a">>)}
        \cup {IsoDate(DaysFromCivil(2020, 3, 1) + k) : k \in DayOffsets}
        \cup {IsoDate(DaysFromCivil(2017, 3, 1) + k) : k \in DayOffsets}

ClaimTypes == {"contract", "fraud", "general", "tort", "employment",
               "maritime", "constructor"}

LimitationArgs(dates) ==
    {[claimType |-> c, jurisdiction |-> j, discoveryDate |-> d,
      accrualDate |-> a, filingDate |-> f] :
        c \in ClaimTypes, j \in {"general", "CA"}, d \in dates,
        a \in dates, f \in {Null, IsoDate(NowDay - 7)}}
    \cup
    {[jurisdiction |-> j, discoveryDate |-> d, accrualDate |-> a,
      filingDate |-> Null] :
        j \in {"general"}, d \in dates, a \in dates}

InitLimitations ==
    /\ pc = "ready"
    /\ fn = "calculateStatuteOfLimitations"
    /\ arg \in LimitationArgs(DateInputs)
    /\ ret = Pending
    /\ now \in NowInstants
    /\ reads = << >>
    /\ prior = NoPrior
    /\ NothingElsewhere

\* The clock may advance between the reads of one call.
CallCalculateStatuteOfLimitations ==
    /\ pc = "ready"
    /\ fn = "calculateStatuteOfLimitations"
    /\ \E drift \in 0..MaxClockDrift :
        /\ ret' = calculateStatuteOfLimitations(arg, now, now + drift)
        /\ reads' = <<now, now + drift>>
        /\ now' = now + drift
    /\ pc' = "done"
    /\ UNCHANGED <<fn, arg, prior>>
    /\ UNCHANGED elsewhere

NextLimitations == CallCalculateStatuteOfLimitations

SpecLimitations == InitLimitations /\ [][NextLimitations]_vars

----------------------------------------------------------------------------
(* Inputs of the cost, damages and settlement calculators *)

CostArgs ==
    {[caseType |-> t, complexity |-> c, jurisdiction |-> j,
      estimatedDuration |-> d, hourlyRate |-> r, disputeValue |-> v] :
        t \in {"general", "contract", "employment", "personal_injury", "admiralty"},
        c \in {"simple", "medium", "complex", "extreme"},
        j \in {"state", "federal", "tribal"},
        d \in {0, 9, 10, 12, 24}, r \in {0, 150, 500},
        v \in {0, 100000, 300000, 1000000}}
    \cup
    {[caseType |-> "contract", complexity |-> "medium", jurisdiction |-> "state",
      estimatedDurationMonths |-> d, hourlyRate |-> 500, disputeValue |-> 0] :
        d \in {12, 24}}
    \cup
    {[complexity |-> c] : c \in {"simple", "extreme"}}
    \cup
    {[disputeValue |-> 50000]}

DamageArgs ==
    {[economicLoss |-> e, lostProfits |-> l, medicalExpenses |-> m,
      painAndSuffering |-> s, punitiveMultiplier |-> x, interestRate |-> i,
      timePeriod |-> t] :
        e \in {0, 1000}, l \in {0, 500}, m \in {0, 200}, s \in {0, 5000},
        x \in {0, 10, 35}, i \in {0, 1}, t \in {0, 1, 2}}
    \cup
    {[economicLoss |-> 1000, timePeriodYears |-> 2], [painAndSuffering |-> 100]}

SettlementArgs ==
    {[damageEstimate |-> e, caseStrength |-> s, litigationCosts |-> c,
      timeToTrial |-> t, riskTolerance |-> r] :
        e \in {0, 1000}, s \in {0, 40, 50, 75, 100}, c \in {0, 400},
        t \in {0, 12, 30}, r \in {"low", "medium", "high", "reckless"}}
    \cup
    {[damageEstimate |-> 1000]}

----------------------------------------------------------------------------
(* The caller of the calculators *)

InitCalculators ==
    /\ pc = "ready"
    /\ \/ fn = "calculateLitigationCosts" /\ arg \in CostArgs
       \/ fn = "calculateDamages" /\ arg \in DamageArgs
       \/ fn = "calculateSettlementRange" /\ arg \in SettlementArgs
       \/ fn = "calculateStatuteOfLimitations" /\ arg \in LimitationArgs(DateInputs)
    /\ ret = Pending
    /\ now \in NowInstants
    /\ reads = << >>
    /\ prior = NoPrior
    /\ NothingElsewhere

CallCalculateLitigationCosts ==
    /\ pc = "ready"
    /\ fn = "calculateLitigationCosts"
    /\ ret' = calculateLitigationCosts(arg)
    /\ pc' = "done"
    /\ UNCHANGED <<fn, arg, now, reads, prior>>
    /\ UNCHANGED elsewhere

CallCalculateDamages ==
    /\ pc = "ready"
    /\ fn = "calculateDamages"
    /\ ret' = calculateDamages(arg)
    /\ pc' = "done"
    /\ UNCHANGED <<fn, arg, now, reads, prior>>
    /\ UNCHANGED elsewhere

CallCalculateSettlementRange ==
    /\ pc = "ready"
    /\ fn = "calculateSettlementRange"
    /\ ret' = calculateSettlementRange(arg)
    /\ pc' = "done"
    /\ UNCHANGED <<fn, arg, now, reads, prior>>
    /\ UNCHANGED elsewhere

NextCalculators ==
    \/ CallCalculateLitigationCosts
    \/ CallCalculateDamages
    \/ CallCalculateSettlementRange
    \/ CallCalculateStatuteOfLimitations

SpecCalculators == InitCalculators /\ [][NextCalculators]_vars

----------------------------------------------------------------------------
(* Inputs of the citation functions *)

\* The case name, reporter and court of a fully populated case record are
\* all the strings over FieldChars whose lengths add up to at most this.
MaxTotalLen == 5

FieldChars == {"R", "2", " "}

\* The strings over FieldChars of length 1..n
FieldStrings(n) == UNION {[1..k -> FieldChars] : k \in 1..n}

\* Field values that collide with the punctuation of the case template.
CollisionStrings ==
    { <<"R", ",", "R">>, <<"R", "(">>, <<"R", ")", "R">>, <<"R", "\n", "R">> }

Year1999 == Str(<<"1", "9", "9", "9">>)

\* The fully populated case records whose text fields add up to total.
FullCaseRecords(total) ==
    UNION { UNION { {[case_name |-> Str(n), volume |-> v, reporter |-> Str(r),
                      page |-> Num(3), court |-> Str(c), year |-> Year1999] :
                        c \in FieldStrings(total - Len(n) - Len(r)),
                        v \in {Num(41), Str(<<"0", "7">>)}} :
                    r \in FieldStrings(total - Len(n) - 1) } :
            n \in FieldStrings(total - 2) }

CollisionCaseRecords ==
    LET plain == [case_name |-> Str(<<"R">>), volume |-> Num(41), reporter |-> Str(<<"R">>),
                  page |-> Num(3), court |-> Str(<<"R">>), year |-> Year1999]
    IN  {[plain EXCEPT ![f] = Str(x)] :
            f \in {"case_name", "reporter", "court"}, x \in CollisionStrings}

PartialCaseRecords ==
    {ObjectOf(r) : r \in
        [case_name : {Undefined, Str(<< >>), Str(<<"R">>)},
         volume : {Undefined, Num(0), Num(41)},
         reporter : {Undefined, Str(<<"R">>)},
         page : {Undefined, Num(3)},
         court : {Undefined, Str(<<"R">>)},
         year : {Undefined, Year1999}]}

CaseArgs(total) ==
    {[object |-> r] :
        r \in FullCaseRecords(total) \cup CollisionCaseRecords \cup PartialCaseRecords}
        \cup {Null, Undefined}

StatuteArgs ==
    {[object |-> ObjectOf(r)] : r \in
        [title : {Undefined, Num(15), Str(<<"4", "2">>)},
         code_section : {Undefined, Str(<<"1", "6", "0", "1">>), Str(<<"1", "(", "a", ")">>),
                         Num(1601), Str(<<"7", "8", "j", "-", "1">>), Str(<<"1", " ", "a">>)},
         code_name : {Undefined, Str(<<"T", "e", "x", ".">>)},
         jurisdiction : {Undefined, Str(<<"F", "e", "d", "e", "r", "a", "l">>),
                         Str(<<"f", "e", "d", "e", "r", "a", "l">>), Str(<<"T", "X">>)},
         year : {Undefined, Num(1968), Str(<<"1", "9", "6", "8">>)}]}
        \cup {Null}

BookArgs ==
    {[object |-> ObjectOf(r)] : r \in
        [author : {Undefined, Str(<< >>), Str(<<"A">>)},
         title : {Undefined, Str(<<"T">>)},
         page : {Undefined, Num(3)},
         edition : {Undefined, Str(<<"1">>), Str(<<"2">>), Num(1), Num(3), Str(<<"1", "0">>)},
         year : {Undefined, Year1999}]}
        \cup {Null, Undefined}

\* How many entries a list of citations has at most.
MaxEntries == 3

\* an entry of the given type with the given fields
Entry(type, fields) == [object |-> fields @@ [type |-> Str(type)]]

Entries ==
    { Entry(<<"c", "a", "s", "e">>, [case_name |-> Str(<<"R">>), year |-> Year1999]),
      Entry(<<"c", "a", "s", "e">>, [case_name |-> Str(<<" ">>)]),
      Entry(<<"c", "a", "s", "e">>, [court |-> Str(<<"R">>)]),
      Entry(<<"s", "t", "a", "t", "u", "t", "e">>,
            [title |-> Num(15), code_section |-> Num(1601),
             jurisdiction |-> Str(<<"F", "e", "d", "e", "r", "a", "l">>)]),
      Entry(<<"c", "o", "n", "s", "t", "i", "t", "u", "t", "i", "o", "n">>,
            [amendment |-> Str(<<"X", "I", "V">>), section |-> Num(1)]),
      Entry(<<"c", "o", "n", "s", "t", "i", "t", "u", "t", "i", "o", "n">>,
            [section |-> Num(1)]),
      Entry(<<"j", "o", "u", "r", "n", "a", "l">>,
            [title |-> Str(<<"T">>), journal |-> Str(<<"J">>)]),
      Entry(<<"b", "o", "o", "k">>, [author |-> Str(<<"A">>), title |-> Str(<<"T">>)]),
      Entry(<<"r", "e", "g", "u", "l", "a", "t", "i", "o", "n">>,
            [title |-> Num(40), section |-> Num(2)]),
      Entry(<<"t", "r", "e", "a", "t", "y">>, [text |-> Str(<<"X">>)]),
      Entry(<<"t", "r", "e", "a", "t", "y">>, [author |-> Str(<<"A">>)]) }

CitationLists(n) ==
    {[array |-> l] : l \in UNION {[1..k -> Entries] : k \in 0..n}}
        \cup {Null, Undefined, Str(<<"R">>), Entry(<<"b", "o", "o", "k">>, [author |-> Str(<<"A">>)])}

\* How many fragments a text handed to validateCitation is made of at most.
MaxFragments == 2

Fragments ==
    { <<"v", ".">>, <<" ", "v", " ">>, <<"v">>, <<"§">>, <<"s", "e", "c", ".">>,
      <<"s", "e", "c">>, <<"C", "o", "n", "s", "t", ".">>, <<"C", "o", "n", "s", "t">>,
      <<"R">>, <<" ">> }

RECURSIVE Concat(_)
Concat(parts) == IF parts = << >> THEN << >> ELSE Head(parts) \o Concat(Tail(parts))

ValidateTexts(n) ==
    {Str(Concat(parts)) : parts \in UNION {[1..k -> Fragments] : k \in 0..n}}
        \cup {Null, Undefined, Num(5), [object |-> [text |-> Str(<<"v", ".">>)]]}

ValidateArgs(n) ==
    {[citation |-> c, type |-> t] :
        c \in ValidateTexts(n), t \in {"case", "statute", "constitution", "journal"}}
        \cup {[citation |-> c] : c \in ValidateTexts(n)}

\* How many pieces a text handed to generateShortForm is made of at most.
MaxPieces == 3

Pieces ==
    { <<"R">>, <<" ", "v", ".", " ">>, <<" ", "v", " ">>, <<"v", ".">>, <<",">>,
      <<"§">>, <<" ">>, <<"(">>, <<"5">> }

ShortFormTexts(n) ==
    {Str(Concat(parts)) : parts \in UNION {[1..k -> Pieces] : k \in 0..n}}
        \cup {Null, Undefined}

ShortFormArgs(n) ==
    {[fullCitation |-> c, type |-> t] :
        c \in ShortFormTexts(n), t \in {"case", "statute", "book"}}
        \cup {[fullCitation |-> c] : c \in ShortFormTexts(n)}

ParseTypes == {"case", "statute", "journal"}

\* Free text handed to parseCitation: "", "R v. W", "15 USC 1601", "§ 5".
FreeTexts ==
    { << >>, <<"R", " ", "v", ".", " ", "W">>,
      <<"1", "5", " ", "U", "S", "C", " ", "1", "6", "0", "1">>,
      <<"§", " ", "5">> }

ParseArgs == {[citation |-> Str(t), type |-> ty] : t \in FreeTexts, ty \in ParseTypes}

InitCitation ==
    /\ pc = "ready"
    /\ \/ fn = "formatCaseCitation" /\ arg \in CaseArgs(MaxTotalLen)
       \/ fn = "formatStatuteCitation" /\ arg \in StatuteArgs
       \/ fn = "parseCitation" /\ arg \in ParseArgs
       \/ fn = "formatBookCitation" /\ arg \in BookArgs
       \/ fn = "formatMultipleCitations" /\ arg \in CitationLists(MaxEntries)
       \/ fn = "validateCitation" /\ arg \in ValidateArgs(MaxFragments)
       \/ fn = "generateShortForm" /\ arg \in ShortFormArgs(MaxPieces)
    /\ ret = Pending
    /\ now = 0
    /\ reads = << >>
    /\ prior = NoPrior
    /\ NothingElsewhere

CallFormatCaseCitation ==
    /\ pc = "ready"
    /\ fn = "formatCaseCitation"
    /\ ret' = Return(Str(formatCaseCitation(arg)))
    /\ pc' = "done"
    /\ UNCHANGED <<fn, arg, now, reads, prior>>
    /\ UNCHANGED elsewhere

CallFormatStatuteCitation ==
    /\ pc = "ready"
    /\ fn = "formatStatuteCitation"
    /\ ret' = Return(Str(formatStatuteCitation(arg)))
    /\ pc' = "done"
    /\ UNCHANGED <<fn, arg, now, reads, prior>>
    /\ UNCHANGED elsewhere

CallFormatBookCitation ==
    /\ pc = "ready"
    /\ fn = "formatBookCitation"
    /\ ret' = Return(Str(formatBookCitation(arg)))
    /\ pc' = "done"
    /\ UNCHANGED <<fn, arg, now, reads, prior>>
    /\ UNCHANGED elsewhere

CallFormatMultipleCitations ==
    /\ pc = "ready"
    /\ fn = "formatMultipleCitations"
    /\ ret' = Return(Str(formatMultipleCitations(arg)))
    /\ pc' = "done"
    /\ UNCHANGED <<fn, arg, now, reads, prior>>
    /\ UNCHANGED elsewhere

CallValidateCitation ==
    /\ pc = "ready"
    /\ fn = "validateCitation"
    /\ ret' = validateCitation(arg)
    /\ pc' = "done"
    /\ UNCHANGED <<fn, arg, now, reads, prior>>
    /\ UNCHANGED elsewhere

CallGenerateShortForm ==
    /\ pc = "ready"
    /\ fn = "generateShortForm"
    /\ ret' = generateShortForm(arg)
    /\ pc' = "done"
    /\ UNCHANGED <<fn, arg, now, reads, prior>>
    /\ UNCHANGED elsewhere

CallParseCitation ==
    /\ pc = "ready"
    /\ fn = "parseCitation"
    /\ ret' = parseCitation(arg.citation, arg.type)
    /\ pc' = "done"
    /\ UNCHANGED <<fn, arg, now, reads, prior>>
    /\ UNCHANGED elsewhere

\* The caller hands the string a formatter returned to parseCitation.
PassToParseCitation ==
    /\ pc = "done"
    /\ fn \in {"formatCaseCitation", "formatStatuteCitation"}
    /\ \E type \in ParseTypes :
        arg' = [citation |-> ret.value, type |-> type]
    /\ prior' = [fn |-> fn, arg |-> arg]
    /\ fn' = "parseCitation"
    /\ ret' = Pending
    /\ pc' = "ready"
    /\ UNCHANGED <<now, reads>>
    /\ UNCHANGED elsewhere

NextCitation ==
    \/ CallFormatCaseCitation
    \/ CallFormatStatuteCitation
    \/ CallParseCitation
    \/ PassToParseCitation
    \/ CallFormatBookCitation
    \/ CallFormatMultipleCitations
    \/ CallValidateCitation
    \/ CallGenerateShortForm

SpecCitation == InitCitation /\ [][NextCitation]_vars

----------------------------------------------------------------------------
(* Claims about calculateCaseStrength *)

KnownFactors == RangeOf(weightKeys)

StrengthReturned == Returned /\ fn = "calculateCaseStrength"

\* C1: for every factors mapping (any subset of the six known factors with any
\* numeric values, plus unknown keys), calculateCaseStrength returns a score s
\* with 0 <= s <= 10 (0..1000 hundredths).
C1_ScoreInRange ==
    StrengthReturned =>
        /\ IsNum(ret.value.score)
        /\ ret.value.score.num >= 0
        /\ ret.value.score.num <= 1000

\* C1 witness: the top of the range is returned for a mapping that also
\* carries an out-of-range value and an unknown key.
C1_Witness ==
    /\ StrengthReturned
    /\ "object" \in DOMAIN arg
    /\ ret.value.score = Num(1000)
    /\ \E k \in KnownFactors : k \in DOMAIN arg.object /\ IsNum(arg.object[k])
                                /\ arg.object[k].num > 100
    /\ \E k \in UnknownKeys : k \in DOMAIN arg.object

\* No known factor of the object carries a number in [0,10].
NoUsableFactor(obj) ==
    \A k \in KnownFactors :
        k \in DOMAIN obj =>
            ~("num" \in DOMAIN obj[k] /\ obj[k].num >= 0 /\ obj[k].num <= 100)

\* C2: whenever no known factor carries a numeric value in [0,10], the call
\* returns (raises nothing) score = 0, confidence = 'low' and an empty
\* breakdown.
C2_NoValidFactors ==
    (pc = "done" /\ fn = "calculateCaseStrength" /\ "object" \in DOMAIN arg
        /\ NoUsableFactor(arg.object)) =>
        /\ "value" \in DOMAIN ret
        /\ ret.value.score = Num(0)
        /\ ret.value.confidence = "low"
        /\ DOMAIN ret.value.breakdown = {}

\* C2 witness: a mapping with an unknown key, a non-numeric value and an
\* out-of-range value, and nothing usable, has been scored.
C2_Witness ==
    /\ StrengthReturned
    /\ "object" \in DOMAIN arg
    /\ NoUsableFactor(arg.object)
    /\ \E k \in UnknownKeys : k \in DOMAIN arg.object
    /\ \E k \in KnownFactors : k \in DOMAIN arg.object /\ IsStr(arg.object[k])
    /\ \E k \in KnownFactors : k \in DOMAIN arg.object /\ IsNum(arg.object[k])

\* C16: in every result, confidence is 'high' exactly when at least 5 valid
\* factors were counted and the returned score is >= 7, 'medium' exactly when
\* that fails but at least 3 valid factors were counted and the returned
\* score is >= 5, and 'low' otherwise.
C16_ConfidenceFromReturnedScore ==
    (StrengthReturned /\ IsNum(ret.value.score)) =>
        LET counted == Cardinality(DOMAIN ret.value.breakdown)
            score == ret.value.score.num
        IN  ret.value.confidence =
                IF counted >= 5 /\ score >= 700 THEN "high"
                ELSE IF counted >= 3 /\ score >= 500 THEN "medium"
                ELSE "low"

----------------------------------------------------------------------------
(* Claims about calculateStatuteOfLimitations *)

LimitationsDone == pc = "done" /\ fn = "calculateStatuteOfLimitations"
LimitationsReturned == Returned /\ fn = "calculateStatuteOfLimitations"

IsIso(v) == "iso" \in DOMAIN v

\* Every date parameter is absent (null) or a well-formed date string.
DatesWellFormed ==
    /\ arg.accrualDate = Null \/ IsIso(arg.accrualDate)
    /\ arg.discoveryDate = Null \/ IsIso(arg.discoveryDate)
    /\ arg.filingDate = Null \/ IsIso(arg.filingDate)

\* The limitation period the table documents for a claim type: 'written' or
\* 'general' where the type has one, the general 3 years otherwise.
DocumentedPeriod(claimType) ==
    CASE claimType = "contract" -> 6
      [] claimType = "fraud" -> 3
      [] OTHER -> 3

\* C6: for every claimType the call returns a numeric sol_period_years from
\* the table: contract 6, fraud 3, and the general 3-year default for an
\* unknown type and for a type with neither 'written' nor 'general' (tort,
\* employment).
C6_PeriodFromTable ==
    (LimitationsDone /\ DatesWellFormed) =>
        /\ "value" \in DOMAIN ret
        /\ ret.value.sol_period_years =
              Num(DocumentedPeriod(IF "claimType" \in DOMAIN arg
                                   THEN arg.claimType ELSE "general"))

\* The instant the accrual date (default: the first clock read) plus the
\* returned period falls on, and the same for the discovery date (default:
\* the accrual date).
AccrualInstant ==
    IF IsIso(arg.accrualDate) THEN Valid(arg.accrualDate.iso * MsPerDay)
    ELSE Valid(reads[1])
DiscoveryInstant ==
    IF IsIso(arg.discoveryDate) THEN Valid(arg.discoveryDate.iso * MsPerDay)
    ELSE AccrualInstant
AccrualDeadline == SetFullYearPlus(AccrualInstant, ret.value.sol_period_years).t
DiscoveryDeadline == SetFullYearPlus(DiscoveryInstant, ret.value.sol_period_years).t

\* No discovery date later than the accrual date is supplied.
NoLaterDiscovery ==
    arg.discoveryDate = Null
        \/ (IsIso(arg.discoveryDate) /\ IsIso(arg.accrualDate)
            /\ arg.discoveryDate.iso <= arg.accrualDate.iso)

\* C7: when the accrual date plus the limitation period lies more than one
\* day before the current time (no later discovery date), the result has
\* is_expired = true and days_remaining < 0.
C7_ExpiredWhenPast ==
    (LimitationsReturned /\ IsIso(arg.accrualDate) /\ NoLaterDiscovery
        /\ AccrualDeadline + MsPerDay < reads[2]) =>
        /\ ret.value.is_expired = TRUE
        /\ ret.value.days_remaining < 0

\* C7 witness: a deadline 25 hours before the call is reported expired with
\* one day of delay; the accrual date was supplied without a discovery date.
C7_Witness ==
    /\ LimitationsReturned
    /\ IsIso(arg.accrualDate)
    /\ arg.discoveryDate = Null
    /\ reads[2] - AccrualDeadline = MsPerDay + 1
    /\ ret.value.is_expired
    /\ ret.value.days_remaining = 0 - 1

\* C8: in every result is_expired holds exactly when days_remaining <= 0 and
\* is_critical exactly when 0 < days_remaining <= 30, so the flags are never
\* both true; an expiry 20 days after the current time gives is_critical =
\* true and is_expired = false.
C8_FlagsFromDaysRemaining ==
    LimitationsReturned =>
        /\ ret.value.is_expired = (ret.value.days_remaining <= 0)
        /\ ret.value.is_critical =
              (0 < ret.value.days_remaining /\ ret.value.days_remaining <= 30)
        /\ ~(ret.value.is_expired /\ ret.value.is_critical)
        /\ (Max(AccrualDeadline, DiscoveryDeadline) - reads[2] = 20 * MsPerDay =>
              (ret.value.is_critical /\ ~ret.value.is_expired))

\* C8 witness: a result whose deadline is exactly 20 days after the last
\* clock read.
C8_Witness ==
    /\ LimitationsReturned
    /\ Max(AccrualDeadline, DiscoveryDeadline) - reads[2] = 20 * MsPerDay
    /\ ret.value.days_remaining = 20
    /\ ret.value.is_critical

\* C9: expiration_date is the later of (accrualDate + period) and
\* (discoveryDate + period), discoveryDate defaulting to accrualDate; it is
\* never earlier than accrualDate + period, also when the discovery date is
\* earlier than the accrual date.
C9_DiscoveryRule ==
    LimitationsReturned =>
        /\ ret.value.expiration_date =
              Max(AccrualDeadline, DiscoveryDeadline) \div MsPerDay
        /\ ret.value.expiration_date >= AccrualDeadline \div MsPerDay

\* C9 witness: a discovery date earlier than the accrual date was supplied
\* and the deadline is the one counted from the accrual date.
C9_Witness ==
    /\ LimitationsReturned
    /\ IsIso(arg.accrualDate) /\ IsIso(arg.discoveryDate)
    /\ arg.discoveryDate.iso < arg.accrualDate.iso
    /\ DiscoveryDeadline < AccrualDeadline
    /\ ret.value.expiration_date = AccrualDeadline \div MsPerDay

----------------------------------------------------------------------------
(* Claims about the citation functions *)

ParseDone == pc = "done" /\ fn = "parseCitation"

\* parseCitation(formatCaseCitation(c), 'case') has run, c being prior.arg.
CaseRoundTrip ==
    /\ ParseDone
    /\ prior # NoPrior
    /\ prior.fn = "formatCaseCitation"
    /\ arg.type = "case"

IsDigitString(v) == IsStr(v) /\ v.str # << >> /\ \A i \in DOMAIN v.str : v.str[i] \in DecimalDigits
IsNumeric(v) == (IsNum(v) /\ v.num > 0) \/ IsDigitString(v)
IsFourDigitYear(v) ==
    \/ IsNum(v) /\ v.num >= 1000 /\ v.num <= 9999
    \/ IsDigitString(v) /\ Len(v.str) = 4

CaseTextFields == {"case_name", "reporter", "court"}
CaseFields == {"case_name", "volume", "reporter", "page", "court", "year"}

\* All six fields populated, volume and page numeric, a four-digit year.
SixFieldsPopulated(c) ==
    /\ "object" \in DOMAIN c
    /\ CaseFields \subseteq DOMAIN c.object
    /\ \A f \in CaseTextFields : IsStr(c.object[f]) /\ c.object[f].str # << >>
    /\ IsNumeric(c.object.volume)
    /\ IsNumeric(c.object.page)
    /\ IsFourDigitYear(c.object.year)

\* No comma and no parenthesis inside a text field.
NoPunctuationCollision(c) ==
    \A f \in CaseTextFields : \A i \in DOMAIN c.object[f].str :
        c.object[f].str[i] \notin {",", "(", ")"}

\* No text field begins or ends with white space or holds a line break.
NoEdgeSpaceOrLineBreak(c) ==
    \A f \in CaseTextFields :
        LET t == c.object[f].str
        IN  /\ t[1] \notin WhiteSpace
            /\ t[Len(t)] \notin WhiteSpace
            /\ \A i \in DOMAIN t : t[i] \notin LineTerminators

\* The components are the six fields of c, as text.
RecoversCase(c) ==
    /\ "value" \in DOMAIN ret
    /\ ret.value # Null
    /\ ret.value.components =
          [f \in CaseFields |-> Str(TemplateText(c.object[f]))]

\* C3 as stated: for every case record c with all six fields populated
\* (numeric volume and page, four-digit year) and no comma/parenthesis inside
\* the fields, parseCitation(formatCaseCitation(c), 'case').components is
\* exactly the six fields of c.
C3_RoundTripAsClaimed ==
    (CaseRoundTrip /\ SixFieldsPopulated(prior.arg) /\ NoPunctuationCollision(prior.arg))
        => RecoversCase(prior.arg)

\* C3 amended: the round trip recovers the six fields (numbers as their
\* decimal text) for every such record in which, moreover, no text field
\* begins or ends with white space or holds a line break.
C3_RoundTrip ==
    (CaseRoundTrip /\ SixFieldsPopulated(prior.arg) /\ NoPunctuationCollision(prior.arg)
        /\ NoEdgeSpaceOrLineBreak(prior.arg))
        => RecoversCase(prior.arg)

\* C3 witness: a record whose reporter holds a space and a digit, and whose
\* volume is a number, has made the round trip.
C3_Witness ==
    /\ CaseRoundTrip
    /\ SixFieldsPopulated(prior.arg)
    /\ NoPunctuationCollision(prior.arg)
    /\ NoEdgeSpaceOrLineBreak(prior.arg)
    /\ prior.arg.object.reporter = Str(<<"R", " ", "2">>)
    /\ prior.arg.object.volume = Num(41)
    /\ RecoversCase(prior.arg)
    /\ ret.value.components.volume = Str(<<"4", "1">>)

\* The text matches the structural pattern of the type (only 'case' and
\* 'statute' have one).
MatchesPattern(text, type) ==
    CASE type = "case" -> RegexMatch(caseRegex, text).matched
      [] type = "statute" -> RegexMatch(statuteRegex, text).matched
      [] OTHER -> FALSE

\* C4: for every non-empty text and every type (including 'case' and
\* 'statute'), when the text does not match the type's structural pattern
\* parseCitation returns a record whose components is exactly
\* {text: original}; never an error or an empty components mapping.
C4_UnmatchedTextWrapped ==
    (ParseDone /\ arg.citation.str # << >>
        /\ ~MatchesPattern(arg.citation.str, arg.type)) =>
        /\ "value" \in DOMAIN ret
        /\ ret.value # Null
        /\ ret.value.components = [text |-> arg.citation]

StatuteDone == Returned /\ fn = "formatStatuteCitation"

\* The three statute templates, filled from the fields of record d; the
\* " (<year>)" suffix is present when the record has a year.
StatuteTemplates(d) ==
    LET section == SectionMark \o TemplateText(Field(d, "code_section"))
        suffix == IF Truthy(Field(d, "year"))
                  THEN <<" ", "(">> \o TemplateText(Field(d, "year")) \o <<")">>
                  ELSE << >>
    IN  IF ~Truthy(Field(d, "code_section")) THEN {}
        ELSE { TemplateText(Field(d, "title")) \o <<" ">> \o USC \o section \o suffix,
               TemplateText(Field(d, "code_name")) \o section \o suffix,
               TemplateText(OrElse(Field(d, "jurisdiction"), Str(<<"S", "t", "a", "t", "e">>)))
                   \o <<" ", "C", "o", "d", "e">> \o section \o suffix }

ExampleStatute ==
    [object |-> [title |-> Num(15), code_section |-> Str(<<"1", "6", "0", "1">>),
                 jurisdiction |-> Str(<<"F", "e", "d", "e", "r", "a", "l">>),
                 year |-> Str(<<"1", "9", "6", "8">>)]]

\* C5: for every statute record formatStatuteCitation returns either the
\* empty string or an instance of one of the three statute templates, so
\* every non-empty result contains "§ <code_section>"; the example record
\* gives "15 U.S.C. § 1601 (1968)".
C5_StatuteTemplate ==
    (StatuteDone /\ "object" \in DOMAIN arg) =>
        /\ ret.value.str = << >> \/ ret.value.str \in StatuteTemplates(arg)
        /\ arg = ExampleStatute =>
              ret.value.str = <<"1", "5", " ", "U", ".", "S", ".", "C", ".", " ", "§", " ",
                                "1", "6", "0", "1", " ", "(", "1", "9", "6", "8", ")">>

----------------------------------------------------------------------------
(* Totality of the calculators *)

\* C10: for every parameter record whose fields have the documented types,
\* unrecognized caseType, complexity, jurisdiction, riskTolerance and
\* claimType strings included, calculateLitigationCosts, calculateDamages,
\* calculateSettlementRange and calculateStatuteOfLimitations each return a
\* result record and raise no exception.
C10_NeverRaises ==
    (pc = "done" /\ fn \in {"calculateLitigationCosts", "calculateDamages",
                            "calculateSettlementRange",
                            "calculateStatuteOfLimitations"})
        => "value" \in DOMAIN ret

----------------------------------------------------------------------------
(* Claims about calculateLitigationCosts *)

CostsDone == pc = "done" /\ fn = "calculateLitigationCosts"

\* the parameter the call reads under key, or the documented default
CostParam(key, default) == IF key \in DOMAIN arg THEN arg[key] ELSE default

Complexities == {"simple", "medium", "complex"}
CaseTypes == {"general", "contract", "employment", "personal_injury"}

\* the table of base hours, by (complexity, caseType)
ReferenceTable(complexity, caseType) ==
    CASE complexity = "simple" ->
            (CASE caseType = "general" -> 50 [] caseType = "contract" -> 40
               [] caseType = "employment" -> 60 [] caseType = "personal_injury" -> 80)
      [] complexity = "medium" ->
            (CASE caseType = "general" -> 150 [] caseType = "contract" -> 120
               [] caseType = "employment" -> 180 [] caseType = "personal_injury" -> 200)
      [] complexity = "complex" ->
            (CASE caseType = "general" -> 400 [] caseType = "contract" -> 300
               [] caseType = "employment" -> 500 [] caseType = "personal_injury" -> 600)

ReferenceHours(complexity, caseType) ==
    ReferenceTable(complexity, IF caseType \in CaseTypes THEN caseType ELSE "general")

\* hours * hourlyRate * (1.3 if federal else 1.0) * max(0.8, duration / 12),
\* in six-hundredths
ReferenceFees(hours, rate, jurisdiction, duration) ==
    LET tenths == IF jurisdiction = "federal" THEN 13 ELSE 10
        \* max(0.8, duration / 12) in sixtieths
        sixtieths == IF 5 * duration >= 48 THEN 5 * duration ELSE 48
    IN  hours * rate * tenths * sixtieths

ExampleCosts ==
    [caseType |-> "contract", complexity |-> "medium", jurisdiction |-> "state",
     estimatedDuration |-> 12, hourlyRate |-> 500, disputeValue |-> 0]

\* C11: for every caseType, recognized complexity, jurisdiction, duration and
\* hourly rate the call returns a breakdown in which attorney_fees is
\* hours * hourlyRate * (1.3 if federal else 1.0) * max(0.8, duration / 12)
\* with hours from the (complexity, caseType) table (the complexity's
\* 'general' entry for an unrecognized caseType), court_fees is 1200 federal
\* and 800 otherwise, and total_estimated_cost is the rounded sum of the six
\* components; contract/medium/state/12 months/500 gives attorney_fees 60000
\* and court_fees 800.
C11_CostFormulas ==
    (CostsDone /\ CostParam("complexity", "medium") \in Complexities) =>
        /\ "value" \in DOMAIN ret
        /\ LET b == ret.value.breakdown
               hours == ReferenceHours(CostParam("complexity", "medium"),
                                       CostParam("caseType", "general"))
           IN  /\ b.attorney_fees =
                     ReferenceFees(hours, CostParam("hourlyRate", 500),
                                   CostParam("jurisdiction", "state"),
                                   CostParam("estimatedDuration", 12))
               /\ b.court_fees = 600 * (IF CostParam("jurisdiction", "state") = "federal"
                                        THEN 1200 ELSE 800)
               /\ DOMAIN b = {"attorney_fees", "court_fees", "discovery_costs",
                              "expert_witnesses", "depositions", "administrative"}
               /\ ret.value.total_estimated_cost =
                     RoundDiv(b.attorney_fees + b.court_fees + b.discovery_costs
                                + b.expert_witnesses + b.depositions + b.administrative,
                              600)
        /\ arg = ExampleCosts =>
              /\ ret.value.breakdown.attorney_fees = 600 * 60000
              /\ ret.value.breakdown.court_fees = 600 * 800

\* C11 witness: an unrecognized caseType under a federal, 24-month, complex
\* case has been costed from the 'general' entry (400 hours), doubled by the
\* duration.
C11_Witness ==
    /\ CostsDone
    /\ "value" \in DOMAIN ret
    /\ CostParam("caseType", "general") \notin CaseTypes
    /\ CostParam("complexity", "medium") = "complex"
    /\ CostParam("jurisdiction", "state") = "federal"
    /\ CostParam("estimatedDuration", 12) = 24
    /\ CostParam("hourlyRate", 500) = 150
    /\ ret.value.breakdown.attorney_fees = 600 * 156000
    /\ ret.value.breakdown.court_fees = 600 * 1200

\* the sum of the six components of a returned breakdown, in six-hundredths
BreakdownSum(b) ==
    b.attorney_fees + b.court_fees + b.discovery_costs + b.expert_witnesses
        + b.depositions + b.administrative

\* C12: cost_benefit_ratio is (disputeValue * 0.7) / total cost when
\* disputeValue > 0 and 0 when disputeValue = 0; for all valid cost
\* parameters the total cost used as divisor is strictly positive, so the
\* ratio is a finite number.
C12_RatioFinite ==
    (CostsDone /\ CostParam("complexity", "medium") \in Complexities) =>
        /\ "value" \in DOMAIN ret
        /\ LET ratio == ret.value.cost_benefit_ratio
               value == CostParam("disputeValue", 0)
           IN  /\ ratio.d > 0
               /\ BreakdownSum(ret.value.breakdown) > 0
               /\ value = 0 => ratio.n = 0
               /\ value > 0 =>
                     \* seven tenths of the value over the total, both in
                     \* six-hundredths
                     /\ ratio.n = 7 * (60 * value)
                     /\ ratio.d = BreakdownSum(ret.value.breakdown)

\* C12 witness: a dispute of 100000 has been costed at 89300 (the defaults
\* with caseType contract); the ratio is 70000 / 89300.
C12_Witness ==
    /\ CostsDone
    /\ "value" \in DOMAIN ret
    /\ CostParam("disputeValue", 0) = 100000
    /\ ret.value.total_estimated_cost = 89300
    /\ ret.value.cost_benefit_ratio = [n |-> 600 * 70000, d |-> 600 * 89300]

\* n/d >= p/q for positive d and q
RatioAtLeast(ratio, p, q) == q * ratio.n >= p * ratio.d

\* C13: for disputeValue > 0 the recommendation tier follows the returned
\* cost_benefit_ratio: 'Favorable' exactly when the ratio is >= 3, 'Moderate'
\* exactly when 1.5 <= ratio < 3, 'Poor' otherwise; for disputeValue = 0 it
\* is the non-monetary text.
C13_TierFromReturnedRatio ==
    (CostsDone /\ "value" \in DOMAIN ret) =>
        LET ratio == ret.value.cost_benefit_ratio
            text == ret.value.recommendation
        IN  IF CostParam("disputeValue", 0) = 0
            THEN text = "Non-monetary case - Consider alternative dispute resolution."
            ELSE /\ (text = "Favorable cost-benefit ratio - Litigation economically viable.")
                        <=> RatioAtLeast(ratio, 3, 1)
                 /\ (text = "Moderate cost-benefit ratio - Proceed with caution.")
                        <=> (RatioAtLeast(ratio, 3, 2) /\ ~RatioAtLeast(ratio, 3, 1))
                 /\ (text = "Poor cost-benefit ratio - Consider settlement or alternative strategies.")
                        <=> ~RatioAtLeast(ratio, 3, 2)

----------------------------------------------------------------------------
(* Claims about calculateDamages *)

DamagesReturned == Returned /\ fn = "calculateDamages"

DamageParam(key, default) == IF key \in DOMAIN arg THEN arg[key] ELSE default

\* compensatory.total + non_economic.total + punitive + interest of a
\* returned breakdown, as a fraction over 10 * the denominator of interest
ComponentSum(b) ==
    LET u == b.interest.d \div 2
    IN  [ n |-> 20 * u * b.compensatory.total + 10 * u * b.non_economic.total.n
                  + u * b.punitive.n + 10 * b.interest.n,
          d |-> 20 * u ]

\* C14: total_damages is the rounded sum of compensatory.total,
\* non_economic.total, punitive and interest, with non_economic.total =
\* 1.5 * painAndSuffering; with punitiveMultiplier = 0 the punitive component
\* is 0, so total_damages is the rounded compensatory.total +
\* non_economic.total + interest.
C14_DamagesTotal ==
    DamagesReturned =>
        LET b == ret.value.breakdown
            sum == ComponentSum(b)
        IN  /\ b.non_economic.total.d = 2
            /\ b.non_economic.total.n = 3 * DamageParam("painAndSuffering", 0)
            /\ b.punitive.d = 20
            /\ b.interest.d > 0
            /\ ret.value.total_damages = RoundDiv(sum.n, sum.d)
            /\ DamageParam("punitiveMultiplier", 10) = 0 =>
                  /\ b.punitive.n = 0
                  /\ ret.value.total_damages =
                        RoundDiv(sum.d * b.compensatory.total
                                   + (sum.d \div 2) * b.non_economic.total.n
                                   + (sum.d \div b.interest.d) * b.interest.n,
                                 sum.d)

\* C14 witness: 1700 of compensatory and 5000 of pain and suffering over two
\* years at 5% with punitiveMultiplier 0: 9200 + 943 of interest.
C14_Witness ==
    /\ DamagesReturned
    /\ DamageParam("punitiveMultiplier", 10) = 0
    /\ DamageParam("timePeriod", 1) = 2
    /\ ret.value.breakdown.compensatory.total = 1700
    /\ ret.value.breakdown.non_economic.total = [n |-> 15000, d |-> 2]
    /\ ret.value.breakdown.interest = [n |-> 754400, d |-> 800]
    /\ ret.value.breakdown.punitive.n = 0
    /\ ret.value.total_damages = 10143

----------------------------------------------------------------------------
(* Claims about calculateSettlementRange *)

SettlementReturned == Returned /\ fn = "calculateSettlementRange"

SettlementParam(key, default) == IF key \in DOMAIN arg THEN arg[key] ELSE default

\* C15: for all valid settlement parameters minimum_acceptable >= 0, and
\* whenever damageEstimate = 0 the result has expected_value = 0 and
\* minimum_acceptable = 0, for every caseStrength, litigationCosts,
\* timeToTrial and riskTolerance.
C15_MinimumFloored ==
    SettlementReturned =>
        /\ ret.value.minimum_acceptable >= 0
        /\ SettlementParam("damageEstimate", 0) = 0 =>
              /\ ret.value.expected_value = 0
              /\ ret.value.minimum_acceptable = 0

\* C15 witness: with no damages and litigation costs of 400 the discounted
\* minimum would be negative; 0 has been returned.
C15_Witness ==
    /\ SettlementReturned
    /\ SettlementParam("damageEstimate", 0) = 0
    /\ SettlementParam("litigationCosts", 0) = 400
    /\ SettlementParam("timeToTrial", 12) = 12
    /\ ret.value.optimal_target = 0 - 106
    /\ ret.value.minimum_acceptable = 0
    /\ ret.value.expected_value = 0

----------------------------------------------------------------------------
(* Claims about the formatters *)

\* the record a formatter was called on has a value under name: not absent,
\* null, empty or zero
Given(name) ==
    /\ "object" \in DOMAIN arg
    /\ name \in DOMAIN arg.object
    /\ arg.object[name] \notin {Null, Str(<< >>), Num(0)}

\* the text of the field as the templates print it
Text(name) ==
    IF IsStr(arg.object[name]) THEN arg.object[name].str ELSE Digits(arg.object[name].num)

CaseDone == Returned /\ fn = "formatCaseCitation"

\* C17: for a record with a case_name, formatCaseCitation returns the case
\* name, followed by ", <volume> <reporter> <page>" only when all three are
\* present, followed by " (<court> <year>)" when court and year are present
\* or " (<year>)" when only the year is; a record without case_name gives ''.
C17_CaseTemplate ==
    CaseDone =>
        IF ~Given("case_name") THEN ret.value = Str(<< >>)
        ELSE ret.value.str =
                Text("case_name")
                \o (IF Given("volume") /\ Given("reporter") /\ Given("page")
                    THEN <<",", " ">> \o Text("volume") \o <<" ">> \o Text("reporter")
                         \o <<" ">> \o Text("page")
                    ELSE << >>)
                \o (IF Given("year")
                    THEN <<" ", "(">>
                         \o (IF Given("court") THEN Text("court") \o <<" ">> ELSE << >>)
                         \o Text("year") \o <<")">>
                    ELSE << >>)

\* C17 witness: a record with a name, a volume, a reporter and a year, but
\* neither page nor court, has been formatted as "R (1999)".
C17_Witness ==
    /\ CaseDone
    /\ Given("case_name") /\ Given("volume") /\ Given("reporter") /\ Given("year")
    /\ ~Given("page") /\ ~Given("court")
    /\ ret.value = Str(<<"R", " ", "(", "1", "9", "9", "9", ")">>)

BookDone == Returned /\ fn = "formatBookCitation"

\* "<author>, <title>" and ", at <page>" when a page is given
BookLead ==
    Text("author") \o <<",", " ">> \o Text("title")
        \o (IF Given("page") THEN <<",", " ", "a", "t", " ">> \o Text("page") ELSE << >>)

\* " (<edition> ed. <year>)"
EditionAndYear ==
    <<" ", "(">> \o Text("edition") \o <<" ", "e", "d", ".", " ">> \o Text("year") \o <<")">>

\* C18 as stated: for a record with author and title, formatBookCitation
\* returns "<author>, <title>", then ", at <page>" when a page is given, then
\* " (<edition> ed. <year>)" whenever edition and year are given, for every
\* edition value; a record lacking author or title gives ''.
C18_BookTemplateAsClaimed ==
    BookDone =>
        IF ~(Given("author") /\ Given("title")) THEN ret.value = Str(<< >>)
        ELSE (Given("edition") /\ Given("year")) =>
                ret.value.str = BookLead \o EditionAndYear

\* C18, amended: as above, but " (<edition> ed. <year>)" is appended when
\* edition and year are given and the edition is not the string '1'; for
\* the edition '1' the suffix is " (<year>)".
C18_BookTemplate ==
    BookDone =>
        IF ~(Given("author") /\ Given("title")) THEN ret.value = Str(<< >>)
        ELSE (Given("edition") /\ Given("year")) =>
                ret.value.str =
                    BookLead \o (IF arg.object.edition = Str(<<"1">>)
                                 THEN <<" ", "(">> \o Text("year") \o <<")">>
                                 ELSE EditionAndYear)

\* C18 witness: a book with a page, the edition '2' and a year has been
\* formatted as "A, T, at 3 (2 ed. 1999)".
C18_Witness ==
    /\ BookDone
    /\ Given("page")
    /\ Given("edition") /\ arg.object.edition = Str(<<"2">>)
    /\ ret.value = Str(<<"A", ",", " ", "T", ",", " ", "a", "t", " ", "3", " ", "(",
                         "2", " ", "e", "d", ".", " ", "1", "9", "9", "9", ")">>)

MultipleDone == Returned /\ fn = "formatMultipleCitations"

\* the output of the formatter the entry's type tag selects; an entry of no
\* known type stands for its citation field, else its text field, else ''
OutputFor(entry) ==
    LET tag == entry.object.type.str
        field(name) == IF name \in DOMAIN entry.object THEN entry.object[name].str ELSE << >>
    IN  CASE tag = <<"c", "a", "s", "e">> -> formatCaseCitation(entry)
          [] tag = <<"s", "t", "a", "t", "u", "t", "e">> -> formatStatuteCitation(entry)
          [] tag = <<"c", "o", "n", "s", "t", "i", "t", "u", "t", "i", "o", "n">> ->
                formatConstitutionalCitation(entry)
          [] tag = <<"j", "o", "u", "r", "n", "a", "l">> -> formatJournalCitation(entry)
          [] tag = <<"b", "o", "o", "k">> -> formatBookCitation(entry)
          [] tag = <<"r", "e", "g", "u", "l", "a", "t", "i", "o", "n">> ->
                formatRegulationCitation(entry)
          [] OTHER -> IF field("citation") # << >> THEN field("citation") ELSE field("text")

IsEmpty(text) == text = << >>
IsBlank(text) == \A i \in DOMAIN text : text[i] \in WhiteSpace

\* the outputs of the entries from the i-th on, in order, joined by "; ",
\* without the empty ones and, if blanksToo, without the blank ones
RECURSIVE JoinedFrom(_, _, _)
JoinedFrom(list, i, blanksToo) ==
    IF i > Len(list) THEN << >>
    ELSE LET first == OutputFor(list[i])
             rest == JoinedFrom(list, i + 1, blanksToo)
         IN  IF IsEmpty(first) \/ (blanksToo /\ IsBlank(first)) THEN rest
             ELSE IF rest = << >> THEN first
             ELSE first \o <<";", " ">> \o rest

\* C19 as stated: formatMultipleCitations returns the outputs of the
\* formatter selected by each entry's type tag, in input order, with every
\* empty output dropped, joined by "; "; it returns '' for an empty or
\* non-array list and when no entry survives.
C19_JoinedOutputsAsClaimed ==
    MultipleDone =>
        IF "array" \in DOMAIN arg
        THEN ret.value.str = JoinedFrom(arg.array, 1, FALSE)
        ELSE ret.value = Str(<< >>)

\* C19, amended: as above, with every output dropped that is empty or
\* consists of white space only.
C19_JoinedOutputs ==
    MultipleDone =>
        IF "array" \in DOMAIN arg
        THEN ret.value.str = JoinedFrom(arg.array, 1, TRUE)
        ELSE ret.value = Str(<< >>)

\* C19 witness: of three entries the middle one formats to '' and is dropped;
\* the other two have been joined in input order.
C19_Witness ==
    /\ MultipleDone
    /\ "array" \in DOMAIN arg
    /\ Len(arg.array) = 3
    /\ OutputFor(arg.array[1]) = <<"A", ",", " ", "T">>
    /\ OutputFor(arg.array[2]) = << >>
    /\ OutputFor(arg.array[3]) = <<"R", " ", "(", "1", "9", "9", "9", ")">>
    /\ ret.value = Str(<<"A", ",", " ", "T", ";", " ", "R", " ", "(", "1", "9", "9", "9", ")">>)

----------------------------------------------------------------------------
(* Claims about validateCitation *)

ValidateDone == pc = "done" /\ fn = "validateCitation"

\* the text has the token somewhere in it
Has(text, token) ==
    \E i \in 0..Len(text) :
        /\ i + Len(token) <= Len(text)
        /\ \A k \in 1..Len(token) : text[i + k] = token[k]

\* the text validateCitation was given is a non-empty string
TextGiven == "str" \in DOMAIN arg.citation /\ arg.citation.str # << >>

TypeGiven == IF "type" \in DOMAIN arg THEN arg.type ELSE "case"

\* the result is {isValid, errors, suggestions}, valid exactly when errors
\* is empty, and a missing or non-string text is invalid with one error
WellFormedValidation ==
    /\ "value" \in DOMAIN ret
    /\ DOMAIN ret.value = {"isValid", "errors", "suggestions"}
    /\ ret.value.isValid <=> (ret.value.errors = << >>)
    /\ ~TextGiven => (~ret.value.isValid /\ Len(ret.value.errors) = 1)

\* C20 as stated: validateCitation never raises and always returns
\* {isValid, errors, suggestions} with isValid true exactly when errors is
\* empty; for type 'case' the text is valid exactly when it contains "v.",
\* for 'statute' exactly when it contains "§" or "sec.", for 'constitution'
\* exactly when it contains "Const."; a missing or non-string text is
\* invalid with one error.
C20_ValidationAsClaimed ==
    ValidateDone =>
        /\ WellFormedValidation
        /\ TextGiven =>
              LET text == arg.citation.str
              IN  /\ TypeGiven = "case" => (ret.value.isValid <=> Has(text, <<"v", ".">>))
                  /\ TypeGiven = "statute" =>
                        (ret.value.isValid <=>
                            (Has(text, <<"§">>) \/ Has(text, <<"s", "e", "c", ".">>)))
                  /\ TypeGiven = "constitution" =>
                        (ret.value.isValid <=> Has(text, <<"C", "o", "n", "s", "t", ".">>))

\* C20, amended: as above, but for type 'case' the text is valid exactly
\* when it contains "v." or " v ".
C20_Validation ==
    ValidateDone =>
        /\ WellFormedValidation
        /\ TextGiven =>
              LET text == arg.citation.str
              IN  /\ TypeGiven = "case" =>
                        (ret.value.isValid <=>
                            (Has(text, <<"v", ".">>) \/ Has(text, <<" ", "v", " ">>)))
                  /\ TypeGiven = "statute" =>
                        (ret.value.isValid <=>
                            (Has(text, <<"§">>) \/ Has(text, <<"s", "e", "c", ".">>)))
                  /\ TypeGiven = "constitution" =>
                        (ret.value.isValid <=> Has(text, <<"C", "o", "n", "s", "t", ".">>))

\* C20 witness: the text "R v ", without "v.", has been validated as a
\* case and found valid.
C20_Witness ==
    /\ ValidateDone
    /\ TypeGiven = "case"
    /\ "type" \in DOMAIN arg
    /\ arg.citation = Str(<<"R", " ", "v", " ">>)
    /\ ret.value.isValid
    /\ ret.value.errors = << >>

----------------------------------------------------------------------------
(* Claims about generateShortForm *)

ShortFormDone == pc = "done" /\ fn = "generateShortForm"

ShortFormType == IF "type" \in DOMAIN arg THEN arg.type ELSE "case"

\* the text before the first comma (the whole text if it has none)
BeforeComma(text) ==
    LET commas == {i \in DOMAIN text : text[i] = ","}
    IN  IF commas = {} THEN text
        ELSE SubSeq(text, 1, (CHOOSE i \in commas : \A k \in commas : i <= k) - 1)

\* a separator of the parties starts at i: white space, 'v', an optional
\* '.', white space
SeparatorAt(text, i) ==
    \E j \in (i + 1)..Len(text) :
        /\ \A k \in i..(j - 1) : text[k] \in WhiteSpace
        /\ text[j] = "v"
        /\ \/ j + 1 <= Len(text) /\ text[j + 1] \in WhiteSpace
           \/ j + 2 <= Len(text) /\ text[j + 1] = "." /\ text[j + 2] \in WhiteSpace

\* the text before the first separator (the whole text if it has none)
LeadParty(text) ==
    LET starts == {i \in DOMAIN text : SeparatorAt(text, i)}
    IN  IF starts = {} THEN text
        ELSE SubSeq(text, 1, (CHOOSE i \in starts : \A k \in starts : i <= k) - 1)

IsSectionChar(c) == c \notin WhiteSpace /\ c # "("

\* the section that follows the section symbol at i, after optional white
\* space: the positions first..last, empty if no section follows
SectionAfter(text, i) ==
    LET first == CHOOSE j \in (i + 1)..(Len(text) + 1) :
                    /\ \A k \in (i + 1)..(j - 1) : text[k] \in WhiteSpace
                    /\ j <= Len(text) => text[j] \notin WhiteSpace
        last == CHOOSE j \in (first - 1)..Len(text) :
                    /\ \A k \in first..j : IsSectionChar(text[k])
                    /\ j < Len(text) => ~IsSectionChar(text[j + 1])
    IN  SubSeq(text, first, last)

\* the section symbols of the text that a section follows
Sections(text) == {i \in DOMAIN text : text[i] = "§" /\ SectionAfter(text, i) # << >>}

\* C21: for type 'case' generateShortForm returns the lead party (the text
\* before the first comma, cut at the first ' v. ' / ' v ' separator); for
\* type 'statute' it returns "§ <section>" of the first section symbol (that
\* a section follows); whenever no pattern matches (a case text starting
\* with a comma, a statute text without a section, any other type) it
\* returns the input unchanged.
C21_ShortForm ==
    (ShortFormDone /\ IsStr(arg.fullCitation) /\ arg.fullCitation.str # << >>) =>
        LET text == arg.fullCitation.str
        IN  /\ "value" \in DOMAIN ret
            /\ ShortFormType = "case" =>
                  ret.value.str = IF Head(text) = "," THEN text
                                  ELSE LeadParty(BeforeComma(text))
            /\ ShortFormType = "statute" =>
                  ret.value.str =
                      IF Sections(text) = {} THEN text
                      ELSE <<"§", " ">>
                           \o SectionAfter(text, CHOOSE i \in Sections(text) :
                                                    \A k \in Sections(text) : i <= k)
            /\ ShortFormType \notin {"case", "statute"} => ret.value.str = text

\* C21 witness: the case text "R v ,", cut at the comma and then at the
\* separator, has given "R".
C21_Witness ==
    /\ ShortFormDone
    /\ ShortFormType = "case"
    /\ arg.fullCitation = Str(<<"R", " ", "v", " ", ",">>)
    /\ ret.value = Str(<<"R">>)

-----------------------------------------------------------------------------
(* Concurrent callers                                                      *)
(* Callers invoke the calculators and citation functions on argument       *)
(* objects they may share.  calculateCaseStrength and                      *)
(* formatMultipleCitations, the two functions that loop over their         *)
(* argument while they update accumulators, run one statement at a time,   *)
(* any caller's statement next; the functions made of one straight line    *)
(* of const declarations run in one step.  This is finer than the host     *)
(* interleaves: a JavaScript agent runs a synchronous call to completion.  *)

\* How many callers run at once.
MaxCallers == 2
Callers == 1..MaxCallers

\* the argument objects on the heap
Objects == {"a", "b"}

\* Where invocation c keeps weightedScore, totalWeight, breakdown and
\* formattedCitations: they are declared in the function body, so every
\* invocation has its own.
scopeShared(c) == 1
scopeOf(c) == c

StraightLineFunctions ==
    {"calculateLitigationCosts", "calculateDamages", "calculateSettlementRange",
     "formatCaseCitation", "formatStatuteCitation", "formatBookCitation",
     "validateCitation", "generateShortForm", "parseCitation"}

StraightLine(f, v) ==
    CASE f = "calculateLitigationCosts" -> calculateLitigationCosts(v)
      [] f = "calculateDamages" -> calculateDamages(v)
      [] f = "calculateSettlementRange" -> calculateSettlementRange(v)
      [] f = "formatCaseCitation" -> Return(Str(formatCaseCitation(v)))
      [] f = "formatStatuteCitation" -> Return(Str(formatStatuteCitation(v)))
      [] f = "formatBookCitation" -> Return(Str(formatBookCitation(v)))
      [] f = "validateCitation" -> validateCitation(v)
      [] f = "generateShortForm" -> generateShortForm(v)
      [] f = "parseCitation" -> parseCitation(v.citation, v.type)

\* the function run alone on the argument v
Alone(f, v) ==
    CASE f = "calculateCaseStrength" -> calculateCaseStrength(v)
      [] f = "formatMultipleCitations" -> Return(Str(formatMultipleCitations(v)))
      [] OTHER -> StraightLine(f, v)

One(S) == {CHOOSE x \in S : TRUE}

\* The arguments callers share: for[f] are arguments of function f.
SharedFactors ==
    { [object |-> [f \in DOMAIN weights |-> Num(70)]],
      [object |-> [precedent_support |-> Num(100), opposing_arguments |-> Num(30),
                   evidence_quality |-> Num(50), legal_authority |-> Str(<<"7">>)]],
      Null }
SharedLists ==
    { [array |-> <<Entry(<<"c", "a", "s", "e">>, [case_name |-> Str(<<"R">>), year |-> Year1999]),
                   Entry(<<"c", "a", "s", "e">>, [case_name |-> Str(<<" ">>)]),
                   Entry(<<"b", "o", "o", "k">>, [author |-> Str(<<"A">>)])>>],
      [array |-> <<Entry(<<"n", "o", "t", "e">>, [text |-> Str(<<"R">>)])>>],
      [array |-> << >>] }
SharedArguments(f) ==
    CASE f = "calculateCaseStrength" -> SharedFactors
      [] f = "formatMultipleCitations" -> SharedLists
      [] f = "calculateLitigationCosts" -> One(CostArgs)
      [] f = "calculateDamages" -> One(DamageArgs)
      [] f = "calculateSettlementRange" -> One(SettlementArgs)
      [] f = "formatCaseCitation" -> One(CaseArgs(MaxTotalLen))
      [] f = "formatStatuteCitation" -> One(StatuteArgs)
      [] f = "formatBookCitation" -> One(BookArgs)
      [] f = "validateCitation" -> One(ValidateArgs(MaxFragments))
      [] f = "generateShortForm" -> One(ShortFormArgs(MaxPieces))
      [] f = "parseCitation" -> One(ParseArgs)
ConcurrentFunctions ==
    {"calculateCaseStrength", "formatMultipleCitations"} \cup StraightLineFunctions
HeapObjects ==
    UNION {{[for |-> f, value |-> v] : v \in SharedArguments(f)} : f \in ConcurrentFunctions}

\* a scope before its declarations have run
NoLocals == [strength |-> StrengthStart, formattedCitations |-> << >>]

InitConcurrent ==
    /\ pc = "done"
    /\ fn = "none"
    /\ arg = Undefined
    /\ ret = Pending
    /\ now = 0
    /\ reads = << >>
    /\ prior = NoPrior
    /\ ui = << >>
    /\ net = << >>
    /\ heap \in [Objects -> HeapObjects]
    /\ \E ref \in [Callers -> Objects] :
         frames = [c \in Callers |->
                     [fn |-> heap[ref[c]].for, ref |-> ref[c], pc |-> "ready", i |-> 0,
                      locals |-> NoLocals, ret |-> Pending, overlapped |-> FALSE]]

\* the accumulators invocation c reads and writes
Locals(c) == frames[scopeOf(c)].locals
Argument(c) == heap[frames[c].ref].value
InFlight(c) == frames[c].pc \notin {"ready", "done"}

\* invocation c runs one statement: it moves to position p with loop index
\* i, leaves its accumulators as locals and its result as r
Advance(c, p, i, locals, r) ==
    /\ frames' = [frames EXCEPT ![scopeOf(c)].locals = locals,
                                ![c].pc = p,
                                ![c].i = i,
                                ![c].ret = r,
                                ![c].overlapped =
                                    @ \/ \E d \in Callers \ {c} : InFlight(d)]
    /\ UNCHANGED <<heap, ui, net>>
    /\ UNCHANGED caller

EnterCalculateCaseStrength(c) ==
    /\ frames[c].pc = "ready"
    /\ frames[c].fn = "calculateCaseStrength"
    /\ IF ~("object" \in DOMAIN Argument(c))
       THEN Advance(c, "done", 0, Locals(c), strengthRejected)
       ELSE Advance(c, "forEach", 0, [Locals(c) EXCEPT !.strength = StrengthStart], Pending)

ForEachWeight(c) ==
    /\ frames[c].pc = "forEach"
    /\ frames[c].i < Len(weightKeys)
    /\ Advance(c, "forEach", frames[c].i + 1,
               [Locals(c) EXCEPT !.strength =
                   StrengthStep(@, Argument(c).object, frames[c].i + 1)],
               Pending)

ReturnCaseStrength(c) ==
    /\ frames[c].pc = "forEach"
    /\ frames[c].i = Len(weightKeys)
    /\ Advance(c, "done", frames[c].i, Locals(c), strengthResult(Locals(c).strength))

EnterFormatMultipleCitations(c) ==
    /\ frames[c].pc = "ready"
    /\ frames[c].fn = "formatMultipleCitations"
    /\ IF ~("array" \in DOMAIN Argument(c)) \/ Len(Argument(c).array) = 0
       THEN Advance(c, "done", 0, Locals(c), Return(Str(<< >>)))
       ELSE Advance(c, "map", 0, [Locals(c) EXCEPT !.formattedCitations = << >>], Pending)

MapCitation(c) ==
    /\ frames[c].pc = "map"
    /\ frames[c].i < Len(Argument(c).array)
    /\ Advance(c, "map", frames[c].i + 1,
               [Locals(c) EXCEPT !.formattedCitations =
                   Append(@, formatEntry(Argument(c).array[frames[c].i + 1]))],
               Pending)

FilterCitations(c) ==
    /\ frames[c].pc = "map"
    /\ frames[c].i = Len(Argument(c).array)
    /\ Advance(c, "join", frames[c].i,
               [Locals(c) EXCEPT !.formattedCitations = SelectSeq(@, keeps)], Pending)

JoinCitations(c) ==
    /\ frames[c].pc = "join"
    /\ Advance(c, "done", frames[c].i, Locals(c),
               Return(Str(Join(Locals(c).formattedCitations, <<";", " ">>))))

RunStraightLine(c) ==
    /\ frames[c].pc = "ready"
    /\ frames[c].fn \in StraightLineFunctions
    /\ Advance(c, "done", 0, Locals(c), StraightLine(frames[c].fn, Argument(c)))

NextConcurrent ==
    \E c \in Callers :
        \/ EnterCalculateCaseStrength(c)
        \/ ForEachWeight(c)
        \/ ReturnCaseStrength(c)
        \/ EnterFormatMultipleCitations(c)
        \/ MapCitation(c)
        \/ FilterCitations(c)
        \/ JoinCitations(c)
        \/ RunStraightLine(c)

SpecConcurrent == InitConcurrent /\ [][NextConcurrent]_vars

-----------------------------------------------------------------------------
(* C22 *)

ResultAlone(c) == Alone(frames[c].fn, Argument(c))

\* C22: however the statements of concurrent invocations interleave, no
\* step changes an argument object, and every invocation that has returned
\* has returned what its function returns when run alone on its argument.
C22_Isolated ==
    [][/\ heap' = heap
       /\ \A c \in Callers :
            frames'[c].pc = "done" => frames'[c].ret = Alone(frames'[c].fn, heap'[frames'[c].ref].value)]_vars

\* Both callers ran calculateCaseStrength on the same factors object, each
\* took steps while the other was inside the function, and both returned
\* the score 8.22 of the three valid factors.
C22_Witness ==
    /\ \A c \in Callers :
        /\ frames[c].fn = "calculateCaseStrength"
        /\ frames[c].pc = "done"
        /\ frames[c].overlapped
        /\ frames[c].ref = "a"
        /\ frames[c].ret = ResultAlone(c)
        /\ frames[c].ret.value.score = Num(822)

-----------------------------------------------------------------------------
(* C23 *)

\* the sum of term[x] over the finite set S
RECURSIVE SumOver(_, _)
SumOver(S, term) ==
    IF S = {} THEN 0
    ELSE LET x == CHOOSE y \in S : TRUE
         IN  term[x] + SumOver(S \ {x}, term)

\* the known factors the object supplies with a number in [0,10]
ValidSupplied(obj) ==
    {f \in KnownFactors : f \in DOMAIN obj /\ IsNum(obj[f])
                            /\ obj[f].num >= 0 /\ obj[f].num <= 100}

\* the value a factor contributes: 10 - value for opposing_arguments only
Contributed(obj) ==
    [f \in ValidSupplied(obj) |->
        IF f = "opposing_arguments" THEN 100 - obj[f].num ELSE obj[f].num]

\* C23: the six weights sum to 1; the breakdown holds exactly the valid
\* supplied factors, each with its value, inverted to 10 - value for
\* opposing_arguments only; the score is the sum of value * weight over those
\* factors divided by the sum of their weights, rounded to hundredths; and
\* when every counted factor contributes the same value v the score is v.
C23_WeightedAverage ==
    /\ SumOver(KnownFactors, weights) = 100
    /\ KnownFactors = DOMAIN weights
    /\ (StrengthReturned /\ "object" \in DOMAIN arg) =>
        LET obj == arg.object
            valid == ValidSupplied(obj)
            value == Contributed(obj)
            weightSum == SumOver(valid, [f \in valid |-> weights[f]])
            weighted == SumOver(valid, [f \in valid |-> value[f] * weights[f]])
            breakdown == ret.value.breakdown
        IN  /\ DOMAIN breakdown = valid
            /\ \A f \in valid :
                /\ breakdown[f].score = obj[f].num
                /\ breakdown[f].adjustedScore = value[f]
                /\ breakdown[f].weight = weights[f]
                /\ breakdown[f].contribution = value[f] * weights[f]
            /\ valid # {} =>
                ret.value.score = Num(RoundDiv(100 * weighted, 10 * weightSum))
            /\ valid = {} => ret.value.score = Num(0)
            /\ \A g \in valid :
                (\A f \in valid : value[f] = value[g]) =>
                    ret.value.score = Num(10 * value[g])

\* C23 witness: three factors are supplied, opposing_arguments at 3.0 and
\* two others at 7.0 among them, next to an invalid one; every counted
\* factor contributes 7.0 and the score is 7.00.
C23_Witness ==
    /\ StrengthReturned
    /\ "object" \in DOMAIN arg
    /\ ValidSupplied(arg.object) = {"opposing_arguments", "factual_strength", "evidence_quality"}
    /\ arg.object["opposing_arguments"] = Num(30)
    /\ arg.object["factual_strength"] = Num(70)
    /\ \E f \in KnownFactors \ ValidSupplied(arg.object) : f \in DOMAIN arg.object
    /\ ret.value.score = Num(700)

-----------------------------------------------------------------------------
(* C24 *)

\* punitive > 3 * (compensatory.total + non_economic.total), on the returned
\* breakdown (punitive in twentieths, non_economic.total in halves)
PunitiveOverThreefold(b) ==
    b.punitive.n > 60 * b.compensatory.total + 30 * b.non_economic.total.n

\* non_economic.total > compensatory.total, on the returned breakdown
NonEconomicOverCompensatory(b) == b.non_economic.total.n > 2 * b.compensatory.total

\* C24: the recommendation of calculateDamages ends with exactly one text:
\* the constitutional-challenge warning when punitive exceeds three times
\* the compensatory-plus-non-economic base, whatever non_economic.total is;
\* otherwise the documentation warning exactly when non_economic.total >
\* compensatory.total; otherwise (all inputs zero included) the 'reasonable
\* and supportable' text.
C24_RecommendationPriority ==
    DamagesReturned =>
        LET b == ret.value.breakdown
            text == ret.value.recommendation.text
        IN  /\ text \in {"High punitive damages may face constitutional challenges.",
                         "Non-economic damages significant - ensure strong documentation.",
                         "Damage calculation appears reasonable and supportable."}
            /\ text = "High punitive damages may face constitutional challenges."
                   <=> PunitiveOverThreefold(b)
            /\ text = "Non-economic damages significant - ensure strong documentation."
                   <=> (~PunitiveOverThreefold(b) /\ NonEconomicOverCompensatory(b))
            /\ (b.compensatory.total = 0 /\ b.non_economic.total.n = 0) =>
                   text = "Damage calculation appears reasonable and supportable."

\* C24 witness: a multiplier of 3.5 on damages whose non-economic part
\* (7500) exceeds the compensatory part (1000): the constitutional warning
\* wins.
C24_Witness ==
    /\ DamagesReturned
    /\ ret.value.breakdown.compensatory.total = 1000
    /\ ret.value.breakdown.non_economic.total = [n |-> 15000, d |-> 2]
    /\ PunitiveOverThreefold(ret.value.breakdown)
    /\ NonEconomicOverCompensatory(ret.value.breakdown)
    /\ ret.value.recommendation.text
           = "High punitive damages may face constitutional challenges."

-----------------------------------------------------------------------------
(* C25 *)

\* damageEstimate >= 0, caseStrength in [0,10], litigationCosts >= 0 and
\* timeToTrial >= 0, for the parameters the call carries
ValidSettlementParams(p) ==
    /\ "damageEstimate" \in DOMAIN p => p.damageEstimate >= 0
    /\ "caseStrength" \in DOMAIN p => (p.caseStrength >= 0 /\ p.caseStrength <= 100)
    /\ "litigationCosts" \in DOMAIN p => p.litigationCosts >= 0
    /\ "timeToTrial" \in DOMAIN p => p.timeToTrial >= 0

\* C25: for valid settlement parameters the returned range is ordered,
\* minimum_acceptable <= optimal_target <= maximum_reasonable.
C25_RangeOrdered ==
    (Returned /\ fn = "calculateSettlementRange" /\ ValidSettlementParams(arg)) =>
        /\ ret.value.minimum_acceptable <= ret.value.optimal_target
        /\ ret.value.optimal_target <= ret.value.maximum_reasonable

-----------------------------------------------------------------------------
(* C26 *)

\* other values of the two parameters: absent, a week before the call, more
\* than a year before it, and a text that is no date
OtherFilingDates ==
    {Null, IsoDate(NowDay - 7), IsoDate(NowDay - 400), Str(<<"n", "/", "a">>)}
OtherJurisdictions == {"general", "CA", "NY"}

\* C26: a call of calculateStatuteOfLimitations returns what the same call
\* returns, at the same clock reads, with any other filingDate and
\* jurisdiction; and when the accrual date is supplied days_remaining is the
\* number of days, rounded up, from the last clock read of the call to the
\* start of the expiration date.
C26_FilingAndJurisdictionIgnored ==
    (pc = "done" /\ fn = "calculateStatuteOfLimitations") =>
        /\ \A f \in OtherFilingDates, j \in OtherJurisdictions :
            calculateStatuteOfLimitations(
                [arg EXCEPT !.filingDate = f, !.jurisdiction = j], reads[1], reads[2]) = ret
        /\ ("value" \in DOMAIN ret /\ Truthy(arg.accrualDate)) =>
            ret.value.days_remaining
                = Ceil(ret.value.expiration_date * MsPerDay - reads[2], MsPerDay)

\* C26 witness: a claim filed in 'CA' a week before the call, whose period
\* ends the day after the call: one day remains, counted from the call and
\* not from the filing date.
C26_Witness ==
    /\ LimitationsReturned
    /\ "value" \in DOMAIN ret
    /\ arg.filingDate = IsoDate(NowDay - 7)
    /\ arg.jurisdiction = "CA"
    /\ Truthy(arg.accrualDate)
    /\ ret.value.days_remaining = 1
    /\ ret.value.is_critical

-----------------------------------------------------------------------------
(* C27 *)

\* neither accrualDate nor discoveryDate is supplied
NoDatesSupplied(p) == ~Truthy(p.accrualDate) /\ ~Truthy(p.discoveryDate)

\* C27: a result of calculateStatuteOfLimitations for a call without
\* accrualDate and discoveryDate has accrual_date = discovery_date = the day
\* of the first clock read, is neither expired nor critical, and has
\* days_remaining between 365 and 366 days per year of the period, plus at
\* most one, also when the clock has advanced before the last read.
C27_DefaultsToNow ==
    (LimitationsReturned /\ NoDatesSupplied(arg)) =>
        LET years == ret.value.sol_period_years.num
        IN  /\ ret.value.accrual_date = reads[1] \div MsPerDay
            /\ ret.value.discovery_date = ret.value.accrual_date
            /\ ~ret.value.is_expired
            /\ ~ret.value.is_critical
            /\ ret.value.days_remaining >= 365 * years
            /\ ret.value.days_remaining <= 366 * years + 1

\* C27 witness: a written-contract claim without dates, the clock read an
\* hour later at the end of the call: 2192 days (six years, two of them
\* leap years) remain.
C27_Witness ==
    /\ LimitationsReturned
    /\ NoDatesSupplied(arg)
    /\ reads[1] < reads[2]
    /\ ret.value.sol_period_years = Num(6)
    /\ ret.value.days_remaining = 2192
    /\ ~ret.value.is_expired

-----------------------------------------------------------------------------
(* C28 *)

StatuteRoundTrip ==
    /\ ParseDone
    /\ prior # NoPrior
    /\ prior.fn = "formatStatuteCitation"
    /\ arg.type = "statute"

\* a section that is a positive number, or a non-empty text without white
\* space and parentheses
IsPlainSection(v) ==
    \/ IsNum(v) /\ v.num > 0
    \/ /\ IsStr(v)
       /\ v.str # << >>
       /\ \A i \in DOMAIN v.str : v.str[i] \notin WhiteSpace \cup {"(", ")"}

\* a federal statute record with a numeric title, a plain section and a
\* four-digit year or none
FederalStatute(s) ==
    /\ "object" \in DOMAIN s
    /\ Field(s, "jurisdiction") \in {Str(<<"F", "e", "d", "e", "r", "a", "l">>),
                                     Str(<<"f", "e", "d", "e", "r", "a", "l">>)}
    /\ IsNumeric(Field(s, "title"))
    /\ IsPlainSection(Field(s, "code_section"))
    /\ Field(s, "year") = Undefined \/ IsFourDigitYear(Field(s, "year"))

\* C28: for every federal statute record s with a numeric title, a
\* code_section free of white space and parentheses and a four-digit year
\* or none, parseCitation(formatStatuteCitation(s), 'statute').components
\* holds the title of s, the code name 'U.S.C.', the code_section of s as
\* section and the year of s (undefined when s has none), each as its text.
C28_StatuteRoundTrip ==
    (StatuteRoundTrip /\ FederalStatute(prior.arg)) =>
        /\ "value" \in DOMAIN ret
        /\ ret.value # Null
        /\ ret.value.components =
              [title |-> Str(TemplateText(Field(prior.arg, "title"))),
               code_name |-> Str(<<"U", ".", "S", ".", "C", ".">>),
               section |-> Str(TemplateText(Field(prior.arg, "code_section"))),
               year |-> IF Field(prior.arg, "year") = Undefined THEN Undefined
                        ELSE Str(TemplateText(Field(prior.arg, "year")))]

\* C28 witness: title 15, section 78j-1 of the federal code, no year, has
\* made the round trip; the year comes back undefined.
C28_Witness ==
    /\ StatuteRoundTrip
    /\ FederalStatute(prior.arg)
    /\ Field(prior.arg, "title") = Num(15)
    /\ Field(prior.arg, "code_section") = Str(<<"7", "8", "j", "-", "1">>)
    /\ Field(prior.arg, "year") = Undefined
    /\ arg.citation = Str(<<"1", "5", " ", "U", ".", "S", ".", "C", ".", " ", "§", " ",
                            "7", "8", "j", "-", "1">>)
    /\ ret.value.components.title = Str(<<"1", "5">>)
    /\ ret.value.components.year = Undefined

-----------------------------------------------------------------------------
(* The LegalResearch component                                             *)
(* ui holds the values of its useState hooks; net the requests fetch has   *)
(* sent: how many so far, those still in flight, and the responses in the  *)
(* order they arrived.  A handler runs to its first await in one step; the *)
(* rest of it runs in one step when the response arrives.  Texts are       *)
(* sequences of characters.                                                *)

\* How many requests a component sends at most.
MaxRequests == 3

\* what the user types into a text field
TypedTexts == {<< >>, <<" ">>, <<"a">>}

\* !text.trim()
isBlankEmptyOnly(text) == text = << >>
isBlank(text) == Trim(text) = << >>

NoRequests == [sent |-> 0, inFlight |-> {}, responses |-> << >>]

\* fetch(url, {method: 'POST', body}): the request leaves
Fetch(url, body) ==
    [sent |-> net.sent + 1,
     inFlight |-> net.inFlight \cup {[id |-> net.sent + 1, url |-> url, body |-> body]},
     responses |-> net.responses]

\* the response to request r arrives
Arrived(r, outcome) ==
    [sent |-> net.sent,
     inFlight |-> net.inFlight \ {r},
     responses |-> Append(net.responses, [id |-> r.id, outcome |-> outcome])]

\* What a request ends with: data.success with a payload, data.success false
\* with or without data.error, or a rejected fetch / unparseable body.
Outcomes ==
    {[success |-> TRUE], [success |-> FALSE], [success |-> FALSE, error |-> "Rate limited"],
     [rejected |-> TRUE]}

InitLegalResearch ==
    /\ pc = "done"
    /\ fn = "none"
    /\ arg = Undefined
    /\ ret = Pending
    /\ now = 0
    /\ reads = << >>
    /\ prior = NoPrior
    /\ heap = << >>
    /\ frames = << >>
    /\ ui = [query |-> << >>, jurisdiction |-> "Federal", loading |-> FALSE,
             results |-> Null, error |-> ""]
    /\ net = NoRequests

\* onChange={(e) => setQuery(e.target.value)}
ChangeQuery ==
    /\ \E text \in TypedTexts : ui' = [ui EXCEPT !.query = text]
    /\ UNCHANGED <<net, heap, frames>>
    /\ UNCHANGED caller

\* onChange={(e) => setJurisdiction(e.target.value)}
ChangeJurisdiction ==
    /\ \E j \in {"Federal", "California"} : ui' = [ui EXCEPT !.jurisdiction = j]
    /\ UNCHANGED <<net, heap, frames>>
    /\ UNCHANGED caller

\* handleSearch, up to its first await
handleSearch ==
    /\ net.sent < MaxRequests
    /\ IF isBlank(ui.query)
       THEN /\ ui' = [ui EXCEPT !.error = "Please enter a legal research query"]
            /\ net' = net
       ELSE /\ ui' = [ui EXCEPT !.loading = TRUE, !.error = ""]
            /\ net' = Fetch("/api/legal-research",
                            [query |-> ui.query, jurisdiction |-> ui.jurisdiction])
    /\ UNCHANGED <<heap, frames>>
    /\ UNCHANGED caller

\* the Research button: onClick={handleSearch} disabled={loading}
ClickResearch ==
    /\ ~ui.loading
    /\ handleSearch

\* onKeyPress={handleKeyPress}: if (event.key === 'Enter') handleSearch()
handleKeyPress ==
    \E key \in {"Enter", "a"} :
        IF key = "Enter" THEN handleSearch ELSE UNCHANGED vars

\* the rest of handleSearch: await response.json(), then the branches and
\* the finally block
ResearchResponse ==
    \E r \in net.inFlight, outcome \in Outcomes :
        /\ net' = Arrived(r, outcome)
        /\ ui' = IF "rejected" \in DOMAIN outcome
                 THEN [ui EXCEPT !.error = "Network error. Please check your connection.",
                                 !.loading = FALSE]
                 ELSE IF outcome.success
                 THEN [ui EXCEPT !.results = [of |-> r.id, query |-> r.body.query],
                                 !.loading = FALSE]
                 ELSE [ui EXCEPT !.error = IF "error" \in DOMAIN outcome THEN outcome.error
                                           ELSE "Research failed",
                                 !.loading = FALSE]
        /\ UNCHANGED <<heap, frames>>
        /\ UNCHANGED caller

NextLegalResearch ==
    \/ ChangeQuery
    \/ ChangeJurisdiction
    \/ ClickResearch
    \/ handleKeyPress
    \/ ResearchResponse

SpecLegalResearch == InitLegalResearch /\ [][NextLegalResearch]_vars

-----------------------------------------------------------------------------
(* C29 *)

\* C29: in the LegalResearch component at most one research request is in
\* flight at any time, loading is false once no request is in flight, and
\* the results shown are never those of a search older than one whose
\* response has already arrived.
C29_SingleFlight ==
    /\ Cardinality(net.inFlight) <= 1
    /\ net.inFlight = {} => ~ui.loading
    /\ \A i \in DOMAIN net.responses :
         (ui.results # Null /\ "success" \in DOMAIN net.responses[i].outcome
             /\ net.responses[i].outcome.success) => ui.results.of >= net.responses[i].id

-----------------------------------------------------------------------------
(* The CaseAnalysis component                                              *)
(* ui holds caseData and the other useState values.  Every field can be    *)
(* edited at every step: the model does not rely on the stepper hiding     *)
(* the fields of the steps that are not active.                            *)

\* the fields of caseData and what the user types into each
caseDataFields ==
    [caseName |-> {<< >>, <<"a">>}, clientId |-> TypedTexts, caseFacts |-> TypedTexts,
     legalIssues |-> TypedTexts, desiredOutcome |-> {<< >>}]

InitCaseAnalysis ==
    /\ pc = "done"
    /\ fn = "none"
    /\ arg = Undefined
    /\ ret = Pending
    /\ now = 0
    /\ reads = << >>
    /\ prior = NoPrior
    /\ heap = << >>
    /\ frames = << >>
    /\ ui = [caseData |-> [caseName |-> << >>, clientId |-> << >>, caseFacts |-> << >>,
                           legalIssues |-> << >>, desiredOutcome |-> << >>],
             loading |-> FALSE, analysis |-> Null, error |-> "",
             privilegeWarning |-> FALSE, activeStep |-> 0]
    /\ net = NoRequests

\* handleInputChange(field): setCaseData({...caseData, [field]: value})
handleInputChange ==
    /\ \E field \in DOMAIN caseDataFields : \E text \in caseDataFields[field] :
         ui' = [ui EXCEPT !.caseData[field] = text]
    /\ UNCHANGED <<net, heap, frames>>
    /\ UNCHANGED caller

\* 'Next: Legal Issues': onClick={() => setActiveStep(1)},
\* disabled={!caseData.caseFacts.trim()}
ClickNext ==
    /\ ~isBlank(ui.caseData.caseFacts)
    /\ ui' = [ui EXCEPT !.activeStep = 1]
    /\ UNCHANGED <<net, heap, frames>>
    /\ UNCHANGED caller

\* 'Back': onClick={() => setActiveStep(0)}
ClickBack ==
    /\ ui' = [ui EXCEPT !.activeStep = 0]
    /\ UNCHANGED <<net, heap, frames>>
    /\ UNCHANGED caller

\* handleAnalyze, up to its first await
handleAnalyze ==
    /\ net.sent < MaxRequests
    /\ IF isBlank(ui.caseData.caseFacts) \/ isBlank(ui.caseData.legalIssues)
       THEN /\ ui' = [ui EXCEPT !.error = "Please provide case facts and legal issues"]
            /\ net' = net
       ELSE IF isBlank(ui.caseData.clientId)
       THEN /\ ui' = [ui EXCEPT !.privilegeWarning = TRUE]
            /\ net' = net
       ELSE /\ ui' = [ui EXCEPT !.loading = TRUE, !.error = "", !.activeStep = 2]
            /\ net' = Fetch("/api/case-analysis",
                            [case_facts |-> ui.caseData.caseFacts,
                             legal_issues |-> ui.caseData.legalIssues,
                             case_name |-> ui.caseData.caseName,
                             desired_outcome |-> ui.caseData.desiredOutcome,
                             client_id |-> ui.caseData.clientId])
    /\ UNCHANGED <<heap, frames>>
    /\ UNCHANGED caller

\* 'Analyze Case': onClick={handleAnalyze},
\* disabled={!caseData.legalIssues.trim() || loading}
ClickAnalyze ==
    /\ ~(isBlank(ui.caseData.legalIssues) \/ ui.loading)
    /\ handleAnalyze

\* the dialog's onClose and its 'Understood' button
ClosePrivilegeWarning ==
    /\ ui.privilegeWarning
    /\ ui' = [ui EXCEPT !.privilegeWarning = FALSE]
    /\ UNCHANGED <<net, heap, frames>>
    /\ UNCHANGED caller

\* the rest of handleAnalyze: await response.json(), then the branches and
\* the finally block
AnalysisResponse ==
    \E r \in net.inFlight, outcome \in Outcomes :
        /\ net' = Arrived(r, outcome)
        /\ ui' = IF "rejected" \in DOMAIN outcome
                 THEN [ui EXCEPT !.error = "Network error. Please check your connection.",
                                 !.loading = FALSE]
                 ELSE IF outcome.success
                 THEN [ui EXCEPT !.analysis = [of |-> r.id], !.loading = FALSE]
                 ELSE [ui EXCEPT !.error = IF "error" \in DOMAIN outcome THEN outcome.error
                                           ELSE "Case analysis failed",
                                 !.loading = FALSE]
        /\ UNCHANGED <<heap, frames>>
        /\ UNCHANGED caller

NextCaseAnalysis ==
    \/ handleInputChange
    \/ ClickNext
    \/ ClickBack
    \/ ClickAnalyze
    \/ ClosePrivilegeWarning
    \/ AnalysisResponse

SpecCaseAnalysis == InitCaseAnalysis /\ [][NextCaseAnalysis]_vars

-----------------------------------------------------------------------------
(* C30 *)

\* the text is empty or white space only
OnlyWhiteSpace(text) == \A i \in DOMAIN text : text[i] \in WhiteSpace

\* C30: in the CaseAnalysis component a step sends a request only when case
\* facts, legal issues and client ID are all non-blank, and the request
\* carries them; a run of handleAnalyze with facts and issues present and a
\* blank client ID opens the privilege warning and changes nothing else
\* (loading, error, analysis, activeStep, caseData, no request); a run with
\* blank facts or issues sets the error message and changes nothing else.
C30_AnalyzeGuards ==
    [][LET d == ui.caseData
           present == ~OnlyWhiteSpace(d.caseFacts) /\ ~OnlyWhiteSpace(d.legalIssues)
       IN  /\ net'.sent > net.sent =>
                /\ present
                /\ ~OnlyWhiteSpace(d.clientId)
                /\ \E r \in net'.inFlight \ net.inFlight :
                     /\ r.url = "/api/case-analysis"
                     /\ r.body.case_facts = d.caseFacts
                     /\ r.body.legal_issues = d.legalIssues
                     /\ r.body.client_id = d.clientId
           /\ (ClickAnalyze /\ present /\ OnlyWhiteSpace(d.clientId)) =>
                /\ ui' = [ui EXCEPT !.privilegeWarning = TRUE]
                /\ net' = net
           /\ (ClickAnalyze /\ ~present) =>
                /\ ui' = [ui EXCEPT !.error = "Please provide case facts and legal issues"]
                /\ net' = net
           /\ (ClickAnalyze /\ present /\ ~OnlyWhiteSpace(d.clientId)) =>
                net'.sent = net.sent + 1
      ]_vars

\* C30 witness: handleAnalyze has run with facts and issues present and a
\* client ID of one space: the privilege warning is open, nothing was sent,
\* and loading, error, analysis and activeStep are as they were.
C30_Witness ==
    /\ ui.privilegeWarning
    /\ ui.caseData.clientId = <<" ">>
    /\ ui.caseData.caseFacts = <<"a">>
    /\ ui.caseData.legalIssues = <<"a">>
    /\ net = NoRequests
    /\ ~ui.loading
    /\ ui.error = ""
    /\ ui.analysis = Null
    /\ ui.activeStep = 1

=============================================================================
